---- MODULE Spec2Model ----
(***************************************************************************)
(* Physical execution layer of the DataFrame engine.                       *)
(*                                                                         *)
(* A physical plan is a Python generator; here every generator function of *)
(* daft/execution/physical_plan.py is an operator  f(g, T)  that resumes   *)
(* the generator whose frame is the record g (its locals and the place it  *)
(* is suspended at, g.pc) against the task table T, runs it to its next    *)
(* yield and returns  [item, g, T]:  the yielded item, the new frame and   *)
(* the new task table.  Generators compose by pulling from their child     *)
(* frame (g.child) with Pull.                                              *)
(***************************************************************************)
EXTENDS Integers, Sequences, FiniteSets, TLC

VARIABLES
    plan,       \* the plan being run: a tree of generator descriptors
    gen,        \* frame of the top generator (frames of its children inside)
    tasks,      \* finalized PartitionTasks, in the order they were finalized
    out,        \* the PartitionTaskBuilders the top generator has yielded
    last,       \* the item of the latest pull
    suspended,  \* the latest pull yielded None and nothing completed since
    cache,      \* partition cache: ids of the tasks whose outputs it holds
    run,        \* 1 for the first run of the plan, 2 for the second
    ref,        \* what the first run yielded (out of run 1)
    queue,      \* scheduler: pulled tasks waiting for admission, oldest first
    in_flight,  \* scheduler: ids of the dispatched tasks that have not reported
    failed,     \* scheduler: a task has failed
    error,      \* scheduler: the error the query ends with
    result,     \* scheduler: "none", "returned" (partition list) or "raised"
    trace       \* tracer: the events written, oldest first, and the stages seen

schedvars == <<queue, in_flight, failed, error, result, trace>>

vars == <<plan, gen, tasks, out, last, suspended, cache, run, ref,
          queue, in_flight, failed, error, result, trace>>

(***************************************************************************)
(* Bounds of the model.                                                    *)
(***************************************************************************)
MaxParts == 2      \* partitions of a pre-existing partition set
MaxRows == 2       \* rows of one pre-existing partition
MaxLimit == 3      \* the n of a GlobalLimit
MaxCoalesce == 4   \* partitions a Coalesce merges, and merges into
MaxJoin == 2       \* partitions of each side of a Join
MaxSort == 2       \* partitions a Sort reads, and writes
MaxListings == 2   \* listing partitions a file read starts from
MaxFanout == 2     \* partitions under a decorating generator; outputs of a fanout
MaxTasks == 3      \* tasks of a plan run under the admission-controlled scheduler
MaxSyncCoalesce == 21   \* the same, under the single-threaded runner

Min(a, b) == IF a <= b THEN a ELSE b
Max(a, b) == IF a >= b THEN a ELSE b

RECURSIVE SumSeq(_)
SumSeq(s) == IF s = <<>> THEN 0 ELSE Head(s) + SumSeq(Tail(s))

RECURSIVE Concat(_)
Concat(ss) == IF ss = <<>> THEN <<>> ELSE Head(ss) \o Concat(Tail(ss))

(***************************************************************************)
(* Items a plan yields.                                                    *)
(***************************************************************************)
ResourceRequest(cpu, gpu, mem) == [num_cpus |-> cpu, num_gpus |-> gpu, memory_bytes |-> mem]

PartitionTaskBuilder(inputs, instrs, rr) ==
    [kind |-> "builder", inputs |-> inputs, instructions |-> instrs, resource_request |-> rr]

TaskItem(t) == [kind |-> "task", id |-> t]
NoneItem == [kind |-> "none"]
StopItem == [kind |-> "stop"]
ErrorItem(e) == [kind |-> "error", err |-> e]

Y(item, g, T) == [item |-> item, g |-> g, T |-> T]

\* Fusing an instruction: appended to the list; CPU/GPU maximum, memory sum.
add_instruction(b, instr, rr) ==
    [b EXCEPT !.instructions = Append(@, instr),
              !.resource_request =
                  ResourceRequest(Max(@.num_cpus, rr.num_cpus),
                                  Max(@.num_gpus, rr.num_gpus),
                                  @.memory_bytes + rr.memory_bytes)]

NoRequest == ResourceRequest(0, 0, 0)

(***************************************************************************)
(* Tasks and partitions.                                                   *)
(***************************************************************************)
\* A partition that existed before the plan ran, with its rows.
PreHandle(k, rows) == [src |-> "pre", id |-> k, idx |-> 1, data |-> rows, ready |-> TRUE]

done(T, t) == T[t].status = "done"

\* task.partition(): the handle of the task's output; ready records whether the
\* task was Done when the generator read it.
partition(T, t) == [src |-> "task", id |-> t, idx |-> 1, data |-> <<>>, ready |-> done(T, t)]

\* The i-th output of a multi-output task (task.partitions()[i]).
partitions(T, t, i) == [src |-> "task", id |-> t, idx |-> i, data |-> <<>>, ready |-> done(T, t)]

\* finalize_partition_task_single_output / _multi_output: the builder becomes
\* a task, appended to the task table; its id is its place in the table.
finalize(T, b, arity) ==
    Append(T, [inputs |-> b.inputs, instructions |-> b.instructions,
               resource_request |-> b.resource_request,
               arity |-> arity, status |-> "pending"])

\* Mutant: a Done task is cancelled as well.
cancel_also_done(T, t) ==
    IF T[t].status \in {"pending", "done"} THEN [T EXCEPT ![t].status = "cancelled"] ELSE T

\* PartitionTask.cancel(): no effect on a Done task, else the task is terminal.
cancel(T, t) ==
    IF T[t].status = "pending" THEN [T EXCEPT ![t].status = "cancelled"] ELSE T

RECURSIVE cancel_all(_, _)
cancel_all(T, ts) == IF ts = <<>> THEN T ELSE cancel_all(cancel(T, Head(ts)), Tail(ts))

RECURSIVE Insert(_, _)
Insert(x, s) ==
    IF s = <<>> THEN <<x>>
    ELSE IF x <= Head(s) THEN <<x>> \o s ELSE <<Head(s)>> \o Insert(x, Tail(s))

RECURSIVE Sorted(_)
Sorted(s) == IF s = <<>> THEN <<>> ELSE Insert(Head(s), Sorted(Tail(s)))

\* The k-1 boundaries that cut the sorted rows into k quantiles.
Quantiles(s, k) ==
    IF s = <<>> THEN <<>> ELSE [j \in 1..k - 1 |-> s[(Len(s) * j) \div k + 1]]

\* The output (1..n) of FanoutRange a row goes to, given the boundaries.
RangeIndex(x, boundaries) == 1 + Cardinality({j \in 1..Len(boundaries) : boundaries[j] <= x})

Reverse(s) == [i \in 1..Len(s) |-> s[Len(s) + 1 - i]]

\* The same for a descending sort.
SortedBy(s, descending) == IF descending THEN Reverse(Sorted(s)) ELSE Sorted(s)

RangeIndexBy(x, boundaries, descending) ==
    IF descending
    THEN 1 + Cardinality({j \in 1..Len(boundaries) : boundaries[j] >= x})
    ELSE RangeIndex(x, boundaries)

\* One instruction applied to a list of partitions.
Apply(instr, ps) ==
    CASE instr.op = "LocalLimit" -> <<SubSeq(ps[1], 1, Min(instr.n, Len(ps[1])))>>
      [] instr.op = "ReduceMerge" -> <<Concat(ps)>>
      [] instr.op = "Sample" -> <<ps[1]>>
      [] instr.op = "ReduceToQuantiles" ->
            <<Quantiles(SortedBy(Concat(ps), instr.descending), instr.num_quantiles)>>
      [] instr.op = "FanoutRange" ->
            [i \in 1..instr.num_outputs |->
                SelectSeq(ps[2], LAMBDA x : RangeIndexBy(x, ps[1], instr.descending) = i)]
      [] instr.op = "FanoutRandom" ->
            [i \in 1..instr.num_outputs |->
                SelectSeq(ps[1], LAMBDA x : ((x + instr.seed) % instr.num_outputs) + 1 = i)]
      [] instr.op = "ReduceMergeAndSort" -> <<SortedBy(Concat(ps), instr.descending)>>
      [] OTHER -> ps

RECURSIVE Execute(_, _)
Execute(instrs, ps) ==
    IF instrs = <<>> THEN ps ELSE Execute(Tail(instrs), Apply(Head(instrs), ps))

\* The rows behind a handle: what the worker computes for the task (a
\* function of the task's instructions and inputs alone).
RECURSIVE Data(_, _)
Data(T, h) ==
    IF h.src = "pre" THEN h.data
    ELSE Execute(T[h.id].instructions,
                 [i \in 1..Len(T[h.id].inputs) |-> Data(T, T[h.id].inputs[i])])[h.idx]

\* task.partition_metadata(), task.partition_metadatas()[i]
num_rows(T, t) == Len(Data(T, partition(T, t)))
size_bytes(T, t) == Len(Data(T, partition(T, t)))
size_bytes_of(T, t, i) == Len(Data(T, partitions(T, t, i)))

RECURSIVE Pull(_, _)

(***************************************************************************)
(* materialize: the sink of a plan.                                        *)
(***************************************************************************)
\* Lines 496-499: wait until every materialization is done, then return
\* their partitions (g.result).
materialize_wait(g, T) ==
    IF \E i \in 1..Len(g.materializations) : ~done(T, g.materializations[i])
    THEN Y(NoneItem, [g EXCEPT !.pc = "wait"], T)
    ELSE Y(StopItem,
           [g EXCEPT !.pc = "done",
                     !.result = [i \in 1..Len(g.materializations) |->
                                    partition(T, g.materializations[i])]],
           T)

\* Mutant: a task the child finalized itself is remembered as well.
materialize_child_all_tasks(g, T) ==
    LET r == Pull(g.child, T)
        g1 == [g EXCEPT !.child = r.g]
    IN  CASE r.item.kind = "builder" ->
               Y(TaskItem(Len(r.T) + 1),
                 [g1 EXCEPT !.materializations = Append(@, Len(r.T) + 1),
                            !.opened = Append(@, Len(r.T) + 1)],
                 finalize(r.T, r.item, 1))
          [] r.item.kind = "task" ->
               Y(r.item, [g1 EXCEPT !.materializations = Append(@, r.item.id)], r.T)
          [] r.item.kind = "stop" -> materialize_wait(g1, r.T)
          [] r.item.kind = "error" -> Y(r.item, [g1 EXCEPT !.pc = "done"], r.T)
          [] OTHER -> Y(r.item, g1, r.T)

\* Lines 488-494: every builder of the child is finalized and remembered;
\* tasks and None are forwarded.  g.opened keeps, for the properties, the ids
\* given to the builders the child yielded.
materialize_child(g, T) ==
    LET r == Pull(g.child, T)
        g1 == [g EXCEPT !.child = r.g]
    IN  CASE r.item.kind = "builder" ->
               Y(TaskItem(Len(r.T) + 1),
                 [g1 EXCEPT !.materializations = Append(@, Len(r.T) + 1),
                            !.opened = Append(@, Len(r.T) + 1)],
                 finalize(r.T, r.item, 1))
          [] r.item.kind = "stop" -> materialize_wait(g1, r.T)
          [] r.item.kind = "error" -> Y(r.item, [g1 EXCEPT !.pc = "done"], r.T)
          [] OTHER -> Y(r.item, g1, r.T)

materialize(g, T) ==
    CASE g.pc = "loop" -> materialize_child(g, T)
      [] g.pc = "wait" -> materialize_wait(g, T)
      [] OTHER -> Y(StopItem, g, T)

(***************************************************************************)
(* partition_read                                                          *)
(***************************************************************************)
partition_read(g, T) ==
    IF g.pos < Len(g.partitions)
    THEN Y(PartitionTaskBuilder(<<PreHandle(g.pos + 1, g.partitions[g.pos + 1])>>, <<>>, NoRequest),
           [g EXCEPT !.pos = @ + 1], T)
    ELSE Y(StopItem, g, T)

(***************************************************************************)
(* file_read: the rows of a listing partition are the sizes of its files.  *)
(***************************************************************************)
\* Lines 87-99: materialize a single dependency.
file_read_child(g, T) ==
    LET r == Pull(g.child, T)
        g1 == [g EXCEPT !.child = r.g, !.pc = "loop"]
    IN  CASE r.item.kind = "builder" ->
               Y(TaskItem(Len(r.T) + 1),
                 [g1 EXCEPT !.materializations = Append(@, Len(r.T) + 1)],
                 finalize(r.T, r.item, 1))
          [] r.item.kind = "stop" ->
               IF Len(g.materializations) > 0
               THEN Y(NoneItem, g1, r.T)
               ELSE Y(StopItem, [g1 EXCEPT !.pc = "done"], r.T)
          [] r.item.kind = "error" -> Y(r.item, [g1 EXCEPT !.pc = "done"], r.T)
          [] OTHER -> Y(r.item, g1, r.T)

\* Mutant: the partition id restarts with every listing.
RECURSIVE file_read_loop_id_per_listing(_, _)
file_read_loop_id_per_listing(g, T) ==
    IF g.pc = "files" /\ g.i < Len(g.file_sizes_bytes)
    THEN Y(add_instruction(
               PartitionTaskBuilder(<<partition(T, g.done_task)>>, <<>>, NoRequest),
               [op |-> "ReadFile", partition_id |-> g.i, index |-> g.i],
               ResourceRequest(0, 0, g.file_sizes_bytes[g.i + 1])),
           [g EXCEPT !.i = @ + 1, !.output_partition_index = @ + 1], T)
    ELSE IF Len(g.materializations) > 0 /\ done(T, Head(g.materializations))
    THEN file_read_loop_id_per_listing(
             [g EXCEPT !.pc = "files", !.materializations = Tail(@),
                       !.done_task = Head(g.materializations), !.i = 0,
                       !.file_sizes_bytes = Data(T, partition(T, Head(g.materializations)))],
             T)
    ELSE file_read_child(g, T)

\* Lines 65-85: for each done listing at the head of the queue, one ReadFile
\* builder per file; g.i is the index of the next file of g.done_task.
RECURSIVE file_read_loop(_, _)
file_read_loop(g, T) ==
    IF g.pc = "files" /\ g.i < Len(g.file_sizes_bytes)
    THEN Y(add_instruction(
               PartitionTaskBuilder(<<partition(T, g.done_task)>>, <<>>, NoRequest),
               [op |-> "ReadFile", partition_id |-> g.output_partition_index, index |-> g.i],
               ResourceRequest(0, 0, g.file_sizes_bytes[g.i + 1])),
           [g EXCEPT !.i = @ + 1, !.output_partition_index = @ + 1], T)
    ELSE IF Len(g.materializations) > 0 /\ done(T, Head(g.materializations))
    THEN file_read_loop(
             [g EXCEPT !.pc = "files", !.materializations = Tail(@),
                       !.done_task = Head(g.materializations), !.i = 0,
                       !.file_sizes_bytes = Data(T, partition(T, Head(g.materializations)))],
             T)
    ELSE file_read_child(g, T)

file_read(g, T) == IF g.pc = "done" THEN Y(StopItem, g, T) ELSE file_read_loop(g, T)

(***************************************************************************)
(* Generators that only decorate the builders of their child.              *)
(***************************************************************************)
\* Mutant: the index counts every item of the child.
file_write_count_all(g, T) ==
    LET r == Pull(g.child, T)
    IN  IF r.item.kind = "builder"
        THEN Y(add_instruction(r.item, [op |-> "WriteFile", partition_id |-> g.index], NoRequest),
               [g EXCEPT !.child = r.g, !.index = @ + 1], r.T)
        ELSE IF r.item.kind \in {"stop", "error"}
        THEN Y(r.item, [g EXCEPT !.child = r.g], r.T)
        ELSE Y(r.item, [g EXCEPT !.child = r.g, !.index = @ + 1], r.T)

\* enumerate_open_executions, and file_write over it: the index counts the
\* builders only.
file_write(g, T) ==
    LET r == Pull(g.child, T)
    IN  IF r.item.kind = "builder"
        THEN Y(add_instruction(r.item, [op |-> "WriteFile", partition_id |-> g.index], NoRequest),
               [g EXCEPT !.child = r.g, !.index = @ + 1], r.T)
        ELSE Y(r.item, [g EXCEPT !.child = r.g], r.T)

\* Mutant: the request of the instruction takes the place of the builder's.
pipeline_instruction_request_replaced(g, T) ==
    LET r == Pull(g.child, T)
    IN  IF r.item.kind = "builder"
        THEN Y([r.item EXCEPT !.instructions = Append(@, g.pipeable_instruction),
                              !.resource_request = g.resource_request],
               [g EXCEPT !.child = r.g], r.T)
        ELSE Y(r.item, [g EXCEPT !.child = r.g], r.T)

\* Lines 118-128: the instruction is fused into every builder of the child.
pipeline_instruction(g, T) ==
    LET r == Pull(g.child, T)
    IN  IF r.item.kind = "builder"
        THEN Y(add_instruction(r.item, g.pipeable_instruction, g.resource_request),
               [g EXCEPT !.child = r.g], r.T)
        ELSE Y(r.item, [g EXCEPT !.child = r.g], r.T)

\* fanout_random: the seed is incremented after every step of the child, also
\* one that is a task or None (line 475); nothing follows the loop, so the
\* increment is folded into the step before it.
fanout_random(g, T) ==
    LET r == Pull(g.child, T)
    IN  IF r.item.kind = "builder"
        THEN Y(add_instruction(r.item,
                   [op |-> "FanoutRandom", num_outputs |-> g.num_partitions, seed |-> g.seed],
                   NoRequest),
               [g EXCEPT !.child = r.g, !.seed = @ + 1], r.T)
        ELSE IF r.item.kind \in {"stop", "error"}
        THEN Y(r.item, [g EXCEPT !.child = r.g], r.T)
        ELSE Y(r.item, [g EXCEPT !.child = r.g, !.seed = @ + 1], r.T)

(***************************************************************************)
(* local_limit: sent is <<v>> for child_plan.send(v), <<>> for next().     *)
(***************************************************************************)
local_limit(g, T, sent) ==
    LET limit == IF g.pc = "yield_builder" /\ sent # <<>> THEN sent[1] ELSE g.limit
        r == Pull(g.child, T)
        g1 == [g EXCEPT !.child = r.g, !.limit = limit]
    IN  CASE g.pc = "done" -> Y(StopItem, g, T)
          [] g.pc # "done" /\ r.item.kind = "builder" ->
                Y(add_instruction(r.item, [op |-> "LocalLimit", n |-> limit], NoRequest),
                  [g1 EXCEPT !.pc = "yield_builder"], r.T)
          [] g.pc # "done" /\ r.item.kind \in {"stop", "error"} ->
                Y(r.item, [g1 EXCEPT !.pc = "done"], r.T)
          [] OTHER -> Y(r.item, [g1 EXCEPT !.pc = "yield_step"], r.T)

(***************************************************************************)
(* global_limit                                                            *)
(***************************************************************************)
\* Mutant: the partition of the task dispatched last is reused.
reused_partition_latest(g, T) == partition(T, Len(T))

\* The partition the trailing LocalLimit(0) tasks take as input.
reused_partition(g, T) == partition(T, g.done_task)

\* Lines 255-264: yield from the LocalLimit(0) builders, then return.
global_limit_zeros(g, T) ==
    IF g.zeros > 0
    THEN Y(PartitionTaskBuilder(<<reused_partition(g, T)>>,
                                <<[op |-> "LocalLimit", n |-> 0]>>,
                                ResourceRequest(0, 0, size_bytes(T, g.done_task))),
           [g EXCEPT !.pc = "zeros", !.zeros = @ - 1], T)
    ELSE Y(StopItem, [g EXCEPT !.pc = "done"], T)

\* Lines 266-284: wait, or execute a single child partition.
global_limit_child(g, T) ==
    IF g.remaining_rows = 0 /\ Len(g.materializations) > 0
    THEN Y(NoneItem, [g EXCEPT !.pc = "loop"], T)
    ELSE LET r == local_limit(g.child, T, IF g.started THEN <<g.remaining_rows>> ELSE <<>>)
             g1 == [g EXCEPT !.child = r.g, !.started = TRUE, !.pc = "loop"]
         IN  CASE r.item.kind = "builder" ->
                    Y(TaskItem(Len(r.T) + 1),
                      [g1 EXCEPT !.materializations = Append(@, Len(r.T) + 1)],
                      finalize(r.T, r.item, 1))
               [] r.item.kind = "stop" ->
                    IF Len(g.materializations) > 0
                    THEN Y(NoneItem, g1, r.T)
                    ELSE Y(StopItem, [g1 EXCEPT !.pc = "done"], r.T)
               [] r.item.kind = "error" -> Y(r.item, [g1 EXCEPT !.pc = "done"], r.T)
               [] OTHER -> Y(r.item, g1, r.T)

\* Mutant: the rolling limit is not capped by the remaining rows.
global_limit_loop_uncapped(g, T) ==
    IF Len(g.materializations) > 0 /\ done(T, Head(g.materializations))
    THEN LET done_task == Head(g.materializations)
             limit == num_rows(T, done_task)
         IN  Y(PartitionTaskBuilder(<<partition(T, done_task)>>,
                                    <<[op |-> "LocalLimit", n |-> limit]>>,
                                    ResourceRequest(0, 0, size_bytes(T, done_task))),
               [g EXCEPT !.pc = "emitted", !.materializations = Tail(@),
                         !.done_task = done_task, !.limit = limit],
               T)
    ELSE global_limit_child(g, T)

\* Lines 231-242: the head of the queue is done: apply the rolling limit to it.
global_limit_loop(g, T) ==
    IF Len(g.materializations) > 0 /\ done(T, Head(g.materializations))
    THEN LET done_task == Head(g.materializations)
             limit == IF g.remaining_rows = 0 THEN 0
                      ELSE Min(g.remaining_rows, num_rows(T, done_task))
         IN  Y(PartitionTaskBuilder(<<partition(T, done_task)>>,
                                    <<[op |-> "LocalLimit", n |-> limit]>>,
                                    ResourceRequest(0, 0, size_bytes(T, done_task))),
               [g EXCEPT !.pc = "emitted", !.materializations = Tail(@),
                         !.done_task = done_task, !.limit = limit],
               T)
    ELSE global_limit_child(g, T)

\* Mutant: remaining_partitions is not decremented for the task just yielded.
global_limit_emitted_nodecrement(g, T) ==
    LET g1 == [g EXCEPT !.remaining_rows = @ - g.limit]
    IN  IF g1.remaining_rows = 0
        THEN global_limit_zeros([g1 EXCEPT !.materializations = <<>>,
                                           !.zeros = g1.remaining_partitions],
                                cancel_all(T, g1.materializations))
        ELSE global_limit_loop(g1, T)

\* Mutant: the tasks still queued are forgotten without being cancelled.
global_limit_emitted_not_cancelled(g, T) ==
    LET g1 == [g EXCEPT !.remaining_partitions = @ - 1, !.remaining_rows = @ - g.limit]
    IN  IF g1.remaining_rows = 0
        THEN global_limit_zeros([g1 EXCEPT !.materializations = <<>>,
                                           !.zeros = g1.remaining_partitions],
                                T)
        ELSE global_limit_loop(g1, T)

\* Lines 243-264: resumed after yielding global_limit_step.
global_limit_emitted(g, T) ==
    LET g1 == [g EXCEPT !.remaining_partitions = @ - 1, !.remaining_rows = @ - g.limit]
    IN  IF g1.remaining_rows = 0
        THEN global_limit_zeros([g1 EXCEPT !.materializations = <<>>,
                                           !.zeros = g1.remaining_partitions],
                                cancel_all(T, g1.materializations))
        ELSE global_limit_loop(g1, T)

global_limit(g, T) ==
    CASE g.pc = "start" ->
            IF g.remaining_rows >= 0 THEN global_limit_loop(g, T)
            ELSE Y(ErrorItem("AssertionError"), [g EXCEPT !.pc = "done"], T)
      [] g.pc = "loop" -> global_limit_loop(g, T)
      [] g.pc = "emitted" -> global_limit_emitted(g, T)
      [] g.pc = "zeros" -> global_limit_zeros(g, T)
      [] OTHER -> Y(StopItem, g, T)

(***************************************************************************)
(* Python floats (IEEE 754 binary64), as far as coalesce uses them: a      *)
(* positive float is [bits, e], its value  BitsInt(bits) * 2^e,  bits the  *)
(* significand, most significant bit first and 1; zero has no bits.        *)
(***************************************************************************)
Mantissa == 53

RECURSIVE IntBits(_)
IntBits(n) == IF n = 0 THEN <<>> ELSE Append(IntBits(n \div 2), n % 2)

RECURSIVE BitsInt(_)
BitsInt(bs) ==
    IF bs = <<>> THEN 0 ELSE 2 * BitsInt(SubSeq(bs, 1, Len(bs) - 1)) + bs[Len(bs)]

RECURSIVE Increment(_)
Increment(bs) ==
    IF bs = <<>> THEN <<1>>
    ELSE IF bs[Len(bs)] = 0 THEN [bs EXCEPT ![Len(bs)] = 1]
    ELSE Append(Increment(SubSeq(bs, 1, Len(bs) - 1)), 0)

\* Round to nearest, ties to even: bits holds the exact leading bits of the
\* result and sticky tells whether non-zero bits follow them.
RoundNearestEven(bits, e, sticky) ==
    IF Len(bits) <= Mantissa THEN [bits |-> bits, e |-> e]
    ELSE LET keep == SubSeq(bits, 1, Mantissa)
             k == Len(bits) - Mantissa
             dropped == BitsInt(SubSeq(bits, Mantissa + 1, Len(bits)))
             half == 2 ^ (k - 1)
             up == \/ dropped > half
                   \/ dropped = half /\ (sticky \/ keep[Mantissa] = 1)
             r == IF up THEN Increment(keep) ELSE keep
         IN  IF Len(r) > Mantissa
             THEN [bits |-> SubSeq(r, 1, Mantissa), e |-> e + k + 1]
             ELSE [bits |-> r, e |-> e + k]

\* Long division: the first Mantissa + 1 significant bits of the quotient.
RECURSIVE DivBits(_, _, _, _)
DivBits(r, b, bits, e) ==
    IF Len(bits) = Mantissa + 1 THEN [bits |-> bits, e |-> e, sticky |-> r # 0]
    ELSE LET bit == IF 2 * r >= b THEN 1 ELSE 0
         IN  DivBits(2 * r - bit * b, b,
                     IF bits = <<>> /\ bit = 0 THEN <<>> ELSE Append(bits, bit), e - 1)

\* a / b for ints a >= 0, b > 0 (Python's true division).
float_div(a, b) ==
    IF a = 0 THEN [bits |-> <<>>, e |-> 0]
    ELSE LET q == DivBits(a % b, b, IntBits(a \div b), 0)
         IN  RoundNearestEven(q.bits, q.e, q.sticky)

\* bits times the int i, from the least significant bit (position k) up; acc
\* holds the bits of the product below position k.  (The test of v and acc
\* makes TLC evaluate them at every step instead of nesting them.)
RECURSIVE MulBits(_, _, _, _, _)
MulBits(bs, i, k, carry, acc) ==
    IF k = 0 THEN IntBits(carry) \o acc
    ELSE LET v == bs[k] * i + carry
         IN  IF v >= 0 /\ Len(acc) >= 0
             THEN MulBits(bs, i, k - 1, v \div 2, <<v % 2>> \o acc)
             ELSE <<>>

\* x * i for a float x and an int i >= 0.
float_mul(x, i) ==
    IF i = 0 \/ x.bits = <<>> THEN [bits |-> <<>>, e |-> 0]
    ELSE RoundNearestEven(MulBits(x.bits, i, Len(x.bits), 0, <<>>), x.e, FALSE)

\* math.ceil(x)
float_ceil(x) ==
    IF x.bits = <<>> THEN 0
    ELSE IF x.e >= 0 THEN BitsInt(x.bits) * 2 ^ x.e
    ELSE LET n == Len(x.bits) + x.e
         IN  IF n <= 0 THEN 1
             ELSE BitsInt(SubSeq(x.bits, 1, n))
                  + (IF \E j \in n + 1..Len(x.bits) : x.bits[j] = 1 THEN 1 ELSE 0)

(***************************************************************************)
(* coalesce                                                                *)
(***************************************************************************)
\* Lines 300-301: math.ceil((coalesce_from / coalesce_to) * i)
coalesce_boundary(coalesce_from, coalesce_to, i) ==
    float_ceil(float_mul(float_div(coalesce_from, coalesce_to), i))

\* Lines 300-303: for each output partition, the number of inputs to merge.
merges_per_result(coalesce_from, coalesce_to) ==
    LET ratio == float_div(coalesce_from, coalesce_to)
        bound == [i \in 0..coalesce_to |-> float_ceil(float_mul(ratio, i))]
    IN  [k \in 1..coalesce_to |-> bound[k] - bound[k - 1]]

\* Lines 326-339: materialize a single dependency.
coalesce_child(g, T) ==
    LET r == Pull(g.child, T)
        g1 == [g EXCEPT !.child = r.g, !.pc = "loop"]
    IN  CASE r.item.kind = "builder" ->
               Y(TaskItem(Len(r.T) + 1),
                 [g1 EXCEPT !.materializations = Append(@, Len(r.T) + 1)],
                 finalize(r.T, r.item, 1))
          [] r.item.kind = "stop" ->
               IF Len(g.materializations) > 0
               THEN Y(NoneItem, g1, r.T)
               ELSE Y(StopItem, [g1 EXCEPT !.pc = "done"], r.T)
          [] r.item.kind = "error" -> Y(r.item, [g1 EXCEPT !.pc = "done"], r.T)
          [] OTHER -> Y(r.item, g1, r.T)

\* Lines 309-324: emit a coalesced partition when the first
\* merges_per_result[0] queued tasks are all done.
coalesce_loop(g, T) ==
    IF g.merges_per_result = <<>>
    THEN Y(ErrorItem("IndexError"), [g EXCEPT !.pc = "done"], T)
    ELSE LET num_partitions_to_merge == Head(g.merges_per_result)
             first == SubSeq(g.materializations, 1,
                             Min(num_partitions_to_merge, Len(g.materializations)))
             ready_to_coalesce == SelectSeq(first, LAMBDA t : done(T, t))
         IN  IF Len(ready_to_coalesce) = num_partitions_to_merge
             THEN Y(add_instruction(
                        PartitionTaskBuilder(
                            [i \in 1..Len(ready_to_coalesce) |-> partition(T, ready_to_coalesce[i])],
                            <<>>,
                            ResourceRequest(0, 0,
                                SumSeq([i \in 1..Len(ready_to_coalesce) |->
                                           size_bytes(T, ready_to_coalesce[i])]))),
                        [op |-> "ReduceMerge"], NoRequest),
                    [g EXCEPT !.pc = "merged",
                              !.materializations =
                                  SubSeq(@, num_partitions_to_merge + 1, Len(@)),
                              !.merges_per_result = Tail(@)],
                    T)
             ELSE coalesce_child(g, T)

coalesce(g, T) ==
    CASE g.pc = "start" ->
            IF g.coalesce_to > g.coalesce_from
            THEN Y(ErrorItem("AssertionError"), [g EXCEPT !.pc = "done"], T)
            ELSE IF g.coalesce_to = 0
            THEN Y(ErrorItem("ZeroDivisionError"), [g EXCEPT !.pc = "done"], T)
            ELSE coalesce_loop(
                     [g EXCEPT !.merges_per_result =
                                   merges_per_result(g.coalesce_from, g.coalesce_to)], T)
      [] g.pc = "loop" -> coalesce_loop(g, T)
      [] g.pc = "merged" -> coalesce_child(g, T)
      [] OTHER -> Y(StopItem, g, T)

(***************************************************************************)
(* join                                                                    *)
(***************************************************************************)
\* Mutant: only the head of the left queue is checked.
join_ready_left_only(g, T) ==
    /\ Len(g.left_requests) > 0
    /\ Len(g.right_requests) > 0
    /\ done(T, Head(g.left_requests))

\* Line 146: both heads of the queues are done.
join_ready(g, T) ==
    /\ Len(g.left_requests) > 0
    /\ Len(g.right_requests) > 0
    /\ done(T, Head(g.left_requests))
    /\ done(T, Head(g.right_requests))

\* Mutant: on a tie the right child is pulled.
join_child_tie_right(g, T) ==
    LET from_left == Len(g.left_requests) < Len(g.right_requests)
        r == Pull(IF from_left THEN g.left_plan ELSE g.right_plan, T)
        g1 == IF from_left THEN [g EXCEPT !.left_plan = r.g] ELSE [g EXCEPT !.right_plan = r.g]
    IN  CASE r.item.kind = "builder" ->
               Y(TaskItem(Len(r.T) + 1),
                 IF from_left
                 THEN [g1 EXCEPT !.left_requests = Append(@, Len(r.T) + 1)]
                 ELSE [g1 EXCEPT !.right_requests = Append(@, Len(r.T) + 1)],
                 finalize(r.T, r.item, 1))
          [] r.item.kind = "stop" ->
               IF Len(g.left_requests) + Len(g.right_requests) > 0
               THEN Y(NoneItem, g1, r.T)
               ELSE Y(StopItem, [g1 EXCEPT !.pc = "done"], r.T)
          [] r.item.kind = "error" -> Y(r.item, [g1 EXCEPT !.pc = "done"], r.T)
          [] OTHER -> Y(r.item, g1, r.T)

\* Mutant: join returns as soon as a child is exhausted.
join_child_return_early(g, T) ==
    LET from_left == Len(g.left_requests) <= Len(g.right_requests)
        r == Pull(IF from_left THEN g.left_plan ELSE g.right_plan, T)
        g1 == IF from_left THEN [g EXCEPT !.left_plan = r.g] ELSE [g EXCEPT !.right_plan = r.g]
    IN  CASE r.item.kind = "builder" ->
               Y(TaskItem(Len(r.T) + 1),
                 IF from_left
                 THEN [g1 EXCEPT !.left_requests = Append(@, Len(r.T) + 1)]
                 ELSE [g1 EXCEPT !.right_requests = Append(@, Len(r.T) + 1)],
                 finalize(r.T, r.item, 1))
          [] r.item.kind = "stop" -> Y(StopItem, [g1 EXCEPT !.pc = "done"], r.T)
          [] r.item.kind = "error" -> Y(r.item, [g1 EXCEPT !.pc = "done"], r.T)
          [] OTHER -> Y(r.item, g1, r.T)

\* Lines 159-181: execute a single step of the child that is more behind.
join_child(g, T) ==
    LET from_left == Len(g.left_requests) <= Len(g.right_requests)
        r == Pull(IF from_left THEN g.left_plan ELSE g.right_plan, T)
        g1 == IF from_left THEN [g EXCEPT !.left_plan = r.g] ELSE [g EXCEPT !.right_plan = r.g]
    IN  CASE r.item.kind = "builder" ->
               Y(TaskItem(Len(r.T) + 1),
                 IF from_left
                 THEN [g1 EXCEPT !.left_requests = Append(@, Len(r.T) + 1)]
                 ELSE [g1 EXCEPT !.right_requests = Append(@, Len(r.T) + 1)],
                 finalize(r.T, r.item, 1))
          [] r.item.kind = "stop" ->
               IF Len(g.left_requests) + Len(g.right_requests) > 0
               THEN Y(NoneItem, g1, r.T)
               ELSE Y(StopItem, [g1 EXCEPT !.pc = "done"], r.T)
          [] r.item.kind = "error" -> Y(r.item, [g1 EXCEPT !.pc = "done"], r.T)
          [] OTHER -> Y(r.item, g1, r.T)

\* Mutant: the left head is joined with the right task queued last.
join_loop_last_right(g, T) ==
    IF join_ready(g, T)
    THEN LET next_left == Head(g.left_requests)
             next_right == g.right_requests[Len(g.right_requests)]
         IN  Y(add_instruction(
                   PartitionTaskBuilder(<<partition(T, next_left), partition(T, next_right)>>,
                                        <<>>,
                                        ResourceRequest(0, 0, size_bytes(T, next_left)
                                                               + size_bytes(T, next_right))),
                   [op |-> "Join"], NoRequest),
               [g EXCEPT !.left_requests = Tail(@),
                         !.right_requests = SubSeq(@, 1, Len(@) - 1)],
               T)
    ELSE join_child(g, T)

\* Lines 143-157: emit a join step when left and right partitions are ready.
join_loop(g, T) ==
    IF join_ready(g, T)
    THEN LET next_left == Head(g.left_requests)
             next_right == Head(g.right_requests)
         IN  Y(add_instruction(
                   PartitionTaskBuilder(<<partition(T, next_left), partition(T, next_right)>>,
                                        <<>>,
                                        ResourceRequest(0, 0, size_bytes(T, next_left)
                                                               + size_bytes(T, next_right))),
                   [op |-> "Join"], NoRequest),
               [g EXCEPT !.left_requests = Tail(@), !.right_requests = Tail(@)],
               T)
    ELSE join_child(g, T)

join(g, T) == IF g.pc = "done" THEN Y(StopItem, g, T) ELSE join_loop(g, T)

(***************************************************************************)
(* reduce                                                                  *)
(***************************************************************************)
\* Mutant: every reduce takes the first output of every fanout.
reduce_emit_first_output(g, T) ==
    IF g.materializations = <<>>
    THEN Y(ErrorItem("IndexError"), [g EXCEPT !.pc = "done"], T)
    ELSE IF g.i < T[Head(g.materializations)].arity
    THEN Y(PartitionTaskBuilder(
               [k \in 1..Len(g.materializations) |-> partitions(T, g.materializations[k], 1)],
               <<g.reduce_instruction>>,
               ResourceRequest(0, 0,
                   SumSeq([k \in 1..Len(g.materializations) |->
                              size_bytes_of(T, g.materializations[k], 1)]))),
           [g EXCEPT !.pc = "emit", !.i = @ + 1], T)
    ELSE Y(StopItem, [g EXCEPT !.pc = "done"], T)

\* Lines 373-383: yield all the reduces in order.
reduce_emit(g, T) ==
    IF g.materializations = <<>>
    THEN Y(ErrorItem("IndexError"), [g EXCEPT !.pc = "done"], T)
    ELSE IF g.i < T[Head(g.materializations)].arity
    THEN Y(PartitionTaskBuilder(
               [k \in 1..Len(g.materializations) |-> partitions(T, g.materializations[k], g.i + 1)],
               <<g.reduce_instruction>>,
               ResourceRequest(0, 0,
                   SumSeq([k \in 1..Len(g.materializations) |->
                              size_bytes_of(T, g.materializations[k], g.i + 1)]))),
           [g EXCEPT !.pc = "emit", !.i = @ + 1], T)
    ELSE Y(StopItem, [g EXCEPT !.pc = "done"], T)

\* Lines 364-367: wait for all fanouts to materialize.
reduce_wait(g, T) ==
    IF \E k \in 1..Len(g.materializations) : ~done(T, g.materializations[k])
    THEN Y(NoneItem, [g EXCEPT !.pc = "wait"], T)
    ELSE reduce_emit(g, T)

\* Lines 357-362: dispatch all fanouts.
reduce_dispatch(g, T) ==
    LET r == Pull(g.child, T)
        g1 == [g EXCEPT !.child = r.g]
    IN  CASE r.item.kind = "builder" ->
               Y(TaskItem(Len(r.T) + 1),
                 [g1 EXCEPT !.materializations = Append(@, Len(r.T) + 1)],
                 finalize(r.T, r.item, g.num_partitions))
          [] r.item.kind = "stop" -> reduce_wait(g1, r.T)
          [] r.item.kind = "error" -> Y(r.item, [g1 EXCEPT !.pc = "done"], r.T)
          [] OTHER -> Y(r.item, g1, r.T)

reduce(g, T) ==
    CASE g.pc = "dispatch" -> reduce_dispatch(g, T)
      [] g.pc = "wait" -> reduce_wait(g, T)
      [] g.pc = "emit" -> reduce_emit(g, T)
      [] OTHER -> Y(StopItem, g, T)

Reduce(child, num_partitions, reduce_instruction) ==
    [type |-> "reduce", pc |-> "dispatch", child |-> child,
     num_partitions |-> num_partitions, reduce_instruction |-> reduce_instruction,
     materializations |-> <<>>, i |-> 0]

(***************************************************************************)
(* sort                                                                    *)
(***************************************************************************)
\* Lines 440-454: the range fanout plan, one builder per source.
range_fanout_plan(g, T) ==
    IF g.sources # <<>>
    THEN Y(add_instruction(
               PartitionTaskBuilder(<<partition(T, g.boundaries), partition(T, Head(g.sources))>>,
                                    <<>>,
                                    ResourceRequest(0, 0, size_bytes(T, Head(g.sources)))),
               [op |-> "FanoutRange", num_outputs |-> g.num_partitions,
                descending |-> g.descending], NoRequest),
           [g EXCEPT !.sources = Tail(@)], T)
    ELSE Y(StopItem, g, T)

\* Lines 456-464: yield from reduce(range_fanout_plan, ...)
sort_reduce(g, T) ==
    LET r == reduce(g.reduce, T)
    IN  Y(r.item,
          [g EXCEPT !.reduce = r.g,
                    !.pc = IF r.item.kind \in {"stop", "error"} THEN "done" ELSE "reduce"],
          r.T)

\* Lines 435-454: wait for boundaries to materialize.
sort_wait_boundaries(g, T) ==
    IF ~done(T, g.boundaries)
    THEN Y(NoneItem, [g EXCEPT !.pc = "wait_boundaries"], T)
    ELSE sort_reduce(
             [g EXCEPT !.source_materializations = <<>>,
                       !.reduce =
                           Reduce([type |-> "range_fanout_plan", boundaries |-> g.boundaries,
                                   sources |-> g.source_materializations,
                                   num_partitions |-> g.num_partitions,
                                   descending |-> g.descending],
                                  g.num_partitions,
                                  [op |-> "ReduceMergeAndSort", descending |-> g.descending])],
             T)

\* Lines 415-433: wait for the samples, then reduce them to sort boundaries.
sort_wait_samples(g, T) ==
    IF \E k \in 1..Len(g.sample_materializations) : ~done(T, g.sample_materializations[k])
    THEN Y(NoneItem, [g EXCEPT !.pc = "wait_samples"], T)
    ELSE LET boundaries ==
                 add_instruction(
                     PartitionTaskBuilder(
                         [k \in 1..Len(g.sample_materializations) |->
                             partition(T, g.sample_materializations[k])],
                         <<>>, NoRequest),
                     [op |-> "ReduceToQuantiles", num_quantiles |-> g.num_partitions,
                      descending |-> g.descending],
                     NoRequest)
         IN  Y(TaskItem(Len(T) + 1),
               [g EXCEPT !.pc = "wait_boundaries", !.sample_materializations = <<>>,
                         !.boundaries = Len(T) + 1],
               finalize(T, boundaries, 1))

\* Mutant: a source is sampled without waiting for it.
sort_sample_eager(g, T) ==
    IF g.k <= Len(g.source_materializations)
    THEN LET source == g.source_materializations[g.k]
         IN  Y(TaskItem(Len(T) + 1),
               [g EXCEPT !.pc = "sample", !.k = @ + 1,
                         !.sample_materializations = Append(@, Len(T) + 1)],
               finalize(T, add_instruction(
                               PartitionTaskBuilder(<<partition(T, source)>>, <<>>, NoRequest),
                               [op |-> "Sample"], NoRequest), 1))
    ELSE sort_wait_samples(g, T)

\* Lines 400-413: sample all partitions, each once it is done.
sort_sample(g, T) ==
    IF g.k <= Len(g.source_materializations)
    THEN LET source == g.source_materializations[g.k]
         IN  IF ~done(T, source)
             THEN Y(NoneItem, [g EXCEPT !.pc = "sample"], T)
             ELSE Y(TaskItem(Len(T) + 1),
                    [g EXCEPT !.pc = "sample", !.k = @ + 1,
                              !.sample_materializations = Append(@, Len(T) + 1)],
                    finalize(T, add_instruction(
                                    PartitionTaskBuilder(<<partition(T, source)>>, <<>>, NoRequest),
                                    [op |-> "Sample"], NoRequest), 1))
    ELSE sort_wait_samples(g, T)

\* Lines 392-398: materialize the child plan.
sort_materialize(g, T) ==
    LET r == Pull(g.child, T)
        g1 == [g EXCEPT !.child = r.g]
    IN  CASE r.item.kind = "builder" ->
               Y(TaskItem(Len(r.T) + 1),
                 [g1 EXCEPT !.source_materializations = Append(@, Len(r.T) + 1)],
                 finalize(r.T, r.item, 1))
          [] r.item.kind = "stop" -> sort_sample(g1, r.T)
          [] r.item.kind = "error" -> Y(r.item, [g1 EXCEPT !.pc = "done"], r.T)
          [] OTHER -> Y(r.item, g1, r.T)

sort(g, T) ==
    CASE g.pc = "materialize" -> sort_materialize(g, T)
      [] g.pc = "sample" -> sort_sample(g, T)
      [] g.pc = "wait_samples" -> sort_wait_samples(g, T)
      [] g.pc = "wait_boundaries" -> sort_wait_boundaries(g, T)
      [] g.pc = "reduce" -> sort_reduce(g, T)
      [] OTHER -> Y(StopItem, g, T)

(***************************************************************************)
(* next(plan): resume the generator whose frame is g.                      *)
(***************************************************************************)
Pull(g, T) ==
    CASE g.type = "partition_read" -> partition_read(g, T)
      [] g.type = "materialize" -> materialize(g, T)
      [] g.type = "file_read" -> file_read(g, T)
      [] g.type = "file_write" -> file_write(g, T)
      [] g.type = "pipeline_instruction" -> pipeline_instruction(g, T)
      [] g.type = "fanout_random" -> fanout_random(g, T)
      [] g.type = "local_limit" -> local_limit(g, T, <<>>)
      [] g.type = "global_limit" -> global_limit(g, T)
      [] g.type = "coalesce" -> coalesce(g, T)
      [] g.type = "join" -> join(g, T)
      [] g.type = "reduce" -> reduce(g, T)
      [] g.type = "range_fanout_plan" -> range_fanout_plan(g, T)
      [] g.type = "sort" -> sort(g, T)

(***************************************************************************)
(* Plans and the frames of their generators before the first pull.         *)
(***************************************************************************)
RECURSIVE SeqsUpTo(_, _)
SeqsUpTo(S, n) ==
    IF n = 0 THEN {<<>>}
    ELSE LET shorter == SeqsUpTo(S, n - 1)
         IN  shorter \cup {Append(s, x) : s \in shorter, x \in S}

\* Partitions: their rows are numbers; a partition of k rows holds 1..k.
Rows(k) == [i \in 1..k |-> i]
PartitionSets == {s \in SeqsUpTo({Rows(k) : k \in 0..MaxRows}, MaxParts) : Len(s) >= 1}

PartitionRead(ps) == [type |-> "partition_read", partitions |-> ps, pos |-> 0]

GlobalLimit(child, n, np) ==
    [type |-> "global_limit", pc |-> "start",
     child |-> [type |-> "local_limit", pc |-> "start", child |-> child, limit |-> n],
     remaining_rows |-> n, remaining_partitions |-> np,
     materializations |-> <<>>, started |-> FALSE,
     done_task |-> 0, limit |-> 0, zeros |-> 0]

GlobalLimitPlans ==
    {[kind |-> "global_limit", num |-> n, partitions |-> ps,
      frame |-> GlobalLimit(PartitionRead(ps), n, Len(ps))] :
        n \in 0..MaxLimit, ps \in PartitionSets}

\* The example of GlobalLimit(3) over two partitions of 5 rows.
LimitExample ==
    [kind |-> "global_limit", num |-> 3, partitions |-> <<Rows(5), Rows(5)>>,
     frame |-> GlobalLimit(PartitionRead(<<Rows(5), Rows(5)>>), 3, 2)]

Coalesce(child, from, to) ==
    [type |-> "coalesce", pc |-> "start", child |-> child,
     coalesce_from |-> from, coalesce_to |-> to,
     merges_per_result |-> <<>>, materializations |-> <<>>]

\* Coalesce plans: the contents of the partitions do not matter to coalesce,
\* every partition holds one row.
CoalescePlans ==
    {[kind |-> "coalesce", from |-> m, to |-> n,
      partitions |-> [i \in 1..m |-> Rows(1)],
      frame |-> Coalesce(PartitionRead([i \in 1..m |-> Rows(1)]), m, n)] :
        m \in 1..MaxCoalesce, n \in 1..MaxCoalesce}

Join(left, right) ==
    [type |-> "join", pc |-> "loop", left_plan |-> left, right_plan |-> right,
     left_requests |-> <<>>, right_requests |-> <<>>]

\* Join plans: both children yield the same number of partitions.
JoinPlans ==
    {[kind |-> "join", partitions |-> [i \in 1..n |-> Rows(1)],
      frame |-> Join(PartitionRead([i \in 1..n |-> Rows(1)]),
                     PartitionRead([i \in 1..n |-> Rows(1)]))] :
        n \in 1..MaxJoin}

Sort(child, num_partitions) ==
    [type |-> "sort", pc |-> "materialize", child |-> child, num_partitions |-> num_partitions,
     source_materializations |-> <<>>, sample_materializations |-> <<>>, k |-> 1,
     boundaries |-> 0, reduce |-> <<>>, descending |-> FALSE]

SortDescending(child, num_partitions) ==
    [Sort(child, num_partitions) EXCEPT !.descending = TRUE]

SortPlans ==
    {[kind |-> "sort", num_partitions |-> n, partitions |-> ps,
      frame |-> Sort(PartitionRead(ps), n)] :
        n \in 1..MaxSort,
        ps \in {s \in SeqsUpTo({Rows(k) : k \in 1..MaxRows}, MaxSort) : Len(s) >= 1}}

FileRead(child) ==
    [type |-> "file_read", pc |-> "loop", child |-> child, materializations |-> <<>>,
     output_partition_index |-> 0, done_task |-> 0, i |-> 0, file_sizes_bytes |-> <<>>]

\* File-read plans: listing partitions of 0..MaxRows files each.
FileReadPlans ==
    {[kind |-> "file_read", partitions |-> ps, frame |-> FileRead(PartitionRead(ps))] :
        ps \in {s \in PartitionSets : Len(s) <= MaxListings}}

FileWrite(child) == [type |-> "file_write", child |-> child, index |-> 0]

PipelineInstruction(child, instr, rr) ==
    [type |-> "pipeline_instruction", child |-> child,
     pipeable_instruction |-> instr, resource_request |-> rr]

FanoutRandom(child, n) ==
    [type |-> "fanout_random", child |-> child, num_partitions |-> n, seed |-> 0]

\* Plans that decorate the merges of a coalesce: written to files, projected,
\* or split randomly.
DecoratedPlans ==
    UNION {{[kind |-> "file_write", partitions |-> p.partitions, frame |-> FileWrite(p.frame)],
            [kind |-> "pipeline_instruction", partitions |-> p.partitions,
             frame |-> PipelineInstruction(p.frame, [op |-> "Project"], ResourceRequest(1, 0, 1))],
            [kind |-> "fanout_random", partitions |-> p.partitions,
             frame |-> FanoutRandom(p.frame, MaxFanout)]} :
        p \in {q \in CoalescePlans : q.from <= MaxFanout /\ q.to <= q.from}}

Plans ==
    GlobalLimitPlans \cup {LimitExample} \cup CoalescePlans \cup JoinPlans \cup SortPlans \cup FileReadPlans
        \cup DecoratedPlans

(***************************************************************************)
(* The run of a plan: the scheduler pulls, workers complete tasks.         *)
(***************************************************************************)
Start(p) ==
    /\ gen = p.frame
    /\ tasks = <<>>
    /\ out = <<>>
    /\ last = [kind |-> "start"]
    /\ suspended = FALSE
    /\ cache = {}

NoError == [kind |-> "none"]

\* RunnerTracer.__init__: nothing written, no stage seen.
RunnerTracer == [events |-> <<>>, stage_start_end |-> <<>>]

\* The admission-controlled scheduler at rest.
SchedulerIdle ==
    /\ queue = <<>>
    /\ in_flight = {}
    /\ failed = FALSE
    /\ error = NoError
    /\ result = "none"
    /\ trace = RunnerTracer

Init ==
    /\ plan \in Plans
    /\ Start(plan)
    /\ run = 1
    /\ ref = <<>>
    /\ SchedulerIdle

Finished == last.kind \in {"stop", "error"}

InFlight(t) == tasks[t].status = "pending"

\* The scheduler pulls the next item of the plan; after a None it pulls again
\* once a completion has been awaited, or at once when nothing is in flight
\* to wait for.
PullNext ==
    /\ ~Finished
    /\ ~suspended \/ \A t \in 1..Len(tasks) : ~InFlight(t)
    /\ LET r == Pull(gen, tasks)
       IN  /\ gen' = r.g
           /\ tasks' = r.T
           /\ last' = r.item
           /\ out' = IF r.item.kind = "builder" THEN Append(out, r.item) ELSE out
           /\ suspended' = (r.item.kind = "none")
    /\ UNCHANGED <<plan, cache, run, ref>>
    /\ UNCHANGED schedvars

\* A worker completes task t and the scheduler awaits it: the task is Done and
\* its output enters the partition cache, unless the task was cancelled, whose
\* output is dropped.
Complete(t) ==
    /\ tasks[t].status \in {"pending", "cancelled"}
    /\ tasks' = [tasks EXCEPT ![t].status = IF @ = "pending" THEN "done" ELSE "dropped"]
    /\ cache' = IF tasks[t].status = "pending" THEN cache \cup {t} ELSE cache
    /\ suspended' = FALSE
    /\ UNCHANGED <<plan, gen, out, last, run, ref>>
    /\ UNCHANGED schedvars

\* The same plan is run a second time.
Restart ==
    /\ run = 1
    /\ Finished
    /\ run' = 2
    /\ ref' = out
    /\ gen' = plan.frame
    /\ tasks' = <<>>
    /\ out' = <<>>
    /\ last' = [kind |-> "start"]
    /\ suspended' = FALSE
    /\ cache' = {}
    /\ UNCHANGED plan
    /\ UNCHANGED schedvars

Next ==
    \/ PullNext
    \/ \E t \in 1..Len(tasks) : Complete(t)
    \/ Restart

Spec == Init /\ [][Next]_vars

(***************************************************************************)
(* Materialized plans: the plan the scheduler runs is materialize(plan).   *)
(***************************************************************************)
Materialize(child) ==
    [type |-> "materialize", pc |-> "loop", child |-> child,
     materializations |-> <<>>, opened |-> <<>>, result |-> <<>>]

Materialized(p) ==
    [kind |-> "materialize", inner |-> p, partitions |-> p.partitions,
     frame |-> Materialize(p.frame)]

\* Materialized plans: sorts, coalesces, joins and writes of one-row partitions.
MaterializedPlans ==
    {Materialized(p) :
        p \in {q \in Plans : /\ q.kind \in {"sort", "coalesce", "join", "file_write"}
                             /\ \A i \in 1..Len(q.partitions) : q.partitions[i] = Rows(1)}}

InitMaterialized ==
    /\ plan \in MaterializedPlans
    /\ Start(plan)
    /\ run = 1
    /\ ref = <<>>
    /\ SchedulerIdle

NextMaterialized ==
    \/ PullNext
    \/ \E t \in 1..Len(tasks) : Complete(t)

\* The scheduler keeps pulling, and every dispatched task completes.
SpecMaterialized ==
    /\ InitMaterialized
    /\ [][NextMaterialized]_vars
    /\ WF_vars(PullNext)
    /\ WF_vars(\E t \in 1..Len(tasks) : Complete(t))

(***************************************************************************)
(* The single-threaded runner (DynamicRunner.run): every yielded task is   *)
(* built before the plan is pulled again, and a None item is an error.     *)
(***************************************************************************)
SyncCoalescePlans ==
    {[kind |-> "coalesce", from |-> m, to |-> n,
      partitions |-> [i \in 1..m |-> Rows(1)],
      frame |-> Coalesce(PartitionRead([i \in 1..m |-> Rows(1)]), m, n)] :
        m \in 1..MaxSyncCoalesce, n \in 1..MaxSyncCoalesce}

SyncPlans == SyncCoalescePlans \cup {Materialized(p) : p \in SyncCoalescePlans}

\* Partitions to sort: m partitions, the i-th of (k + i) mod (MaxRows + 1) rows
\* a(i + 1), a(i + 2), .. modulo MaxRows + 2.
SortRows(m, k, a) ==
    [i \in 1..m |-> [j \in 1..((k + i) % (MaxRows + 1)) |-> (a * (i + j)) % (MaxRows + 2)]]

\* The example of three partitions sorted into two.
SortExample == <<<<3, 1, 4>>, <<1, 5, 9>>, <<2, 6, 5>>>>

SortedPlans ==
    UNION {{[kind |-> "sort", num_partitions |-> n, descending |-> FALSE, partitions |-> ps,
             frame |-> Sort(PartitionRead(ps), n)],
            [kind |-> "sort", num_partitions |-> n, descending |-> TRUE, partitions |-> ps,
             frame |-> SortDescending(PartitionRead(ps), n)]} :
        n \in 1..MaxSort,
        ps \in {SortRows(m, k, a) : m \in 1..MaxSort, k \in 0..MaxRows, a \in 1..MaxRows + 1}
                  \cup {SortExample}}

InitSorted ==
    /\ plan \in {Materialized(p) : p \in SortedPlans}
    /\ Start(plan)
    /\ run = 1
    /\ ref = <<>>
    /\ SchedulerIdle


InitSync ==
    /\ plan \in SyncPlans
    /\ Start(plan)
    /\ run = 1
    /\ ref = <<>>
    /\ SchedulerIdle

\* _build_partitions: the task is run and its result reported.
build_partitions(T) ==
    [t \in 1..Len(T) |-> IF T[t].status = "pending" THEN [T[t] EXCEPT !.status = "done"] ELSE T[t]]

RunStep ==
    /\ ~Finished
    /\ LET r == Pull(gen, tasks)
       IN  /\ gen' = r.g
           /\ tasks' = build_partitions(r.T)
           /\ cache' = {t \in 1..Len(r.T) : r.T[t].status \in {"pending", "done"}}
           /\ last' = IF r.item.kind = "none"
                      THEN ErrorItem("Got a None construction in singlethreaded mode")
                      ELSE r.item
           /\ out' = IF r.item.kind = "builder" THEN Append(out, r.item) ELSE out
    /\ UNCHANGED <<plan, suspended, run, ref>>
    /\ UNCHANGED schedvars

NextSync == RunStep

SpecSync == InitSync /\ [][NextSync]_vars

\* Sorts under the single-threaded runner.
SpecSorted == InitSorted /\ [][NextSync]_vars

(***************************************************************************)
(* The scheduler with resource admission (pull, dispatch and await phases; *)
(* failure of a task).  To the scheduler a plan is a source of tasks, each *)
(* with a resource request.                                                *)
(***************************************************************************)
\* Admission caps, and the hard caps above them.
cap_cpu == 2
cap_gpu == 1
cap_mem == 2
hard_cpu == cap_cpu + 1
hard_gpu == cap_gpu
hard_mem == cap_mem + 1

\* Requests: none, small, all GPUs and memory, more memory than the cap but
\* not than the hard cap, more CPUs than the hard cap.
Requests ==
    {ResourceRequest(0, 0, 0), ResourceRequest(1, 0, 1),
     ResourceRequest(1, cap_gpu, cap_mem),
     ResourceRequest(1, 0, hard_mem), ResourceRequest(hard_cpu + 1, 0, 0)}

SchedulerPlans ==
    {[kind |-> "tasks", requests |-> rs] :
        rs \in {s \in SeqsUpTo(Requests, MaxTasks) : Len(s) >= 1}}

RECURSIVE SumOver(_, _)
SumOver(f, S) ==
    IF S = {} THEN 0 ELSE LET x == CHOOSE y \in S : TRUE IN f[x] + SumOver(f, S \ {x})

\* The in-flight resource counters.
cpu_used == SumOver([t \in in_flight |-> tasks[t].resource_request.num_cpus], in_flight)
gpu_used == SumOver([t \in in_flight |-> tasks[t].resource_request.num_gpus], in_flight)
mem_used == SumOver([t \in in_flight |-> tasks[t].resource_request.memory_bytes], in_flight)

exceeds_caps(req) ==
    req.num_cpus > cap_cpu \/ req.num_gpus > cap_gpu \/ req.memory_bytes > cap_mem

exceeds_hard_caps(req) ==
    req.num_cpus > hard_cpu \/ req.num_gpus > hard_gpu \/ req.memory_bytes > hard_mem

\* Mutant: the memory of the tasks in flight is not counted.
can_admit_no_memory(req) ==
    \/ /\ cpu_used + req.num_cpus <= cap_cpu
       /\ gpu_used + req.num_gpus <= cap_gpu
       /\ req.memory_bytes <= cap_mem
    \/ in_flight = {} /\ exceeds_caps(req)

\* Mutant: a task is admitted only if it fits the caps.
can_admit_only_fitting(req) ==
    /\ cpu_used + req.num_cpus <= cap_cpu
    /\ gpu_used + req.num_gpus <= cap_gpu
    /\ mem_used + req.memory_bytes <= cap_mem

\* A task is admitted iff its request fits next to the tasks in flight; a task
\* whose request exceeds the caps is admitted alone.
can_admit(req) ==
    \/ /\ cpu_used + req.num_cpus <= cap_cpu
       /\ gpu_used + req.num_gpus <= cap_gpu
       /\ mem_used + req.memory_bytes <= cap_mem
    \/ in_flight = {} /\ exceeds_caps(req)

\* Mutant: the latest error is the one surfaced.
first_error_latest(e) == e

\* First error wins.
first_error(e) == IF failed THEN error ELSE e

\* Cancel every task in flight.
cancel_in_flight(T) ==
    [t \in 1..Len(T) |-> IF t \in in_flight THEN [T[t] EXCEPT !.status = "cancelled"] ELSE T[t]]

Remove(q, x) == SelectSeq(q, LAMBDA y : y # x)

InitSched ==
    /\ plan \in SchedulerPlans
    /\ gen = [type |-> "tasks", pos |-> 0]
    /\ tasks = <<>>
    /\ out = <<>>
    /\ last = [kind |-> "start"]
    /\ suspended = FALSE
    /\ cache = {}
    /\ run = 1
    /\ ref = <<>>
    /\ SchedulerIdle

Running == ~failed /\ result = "none"

\* Pull phase: the next task of the plan is pulled and queued for admission.
get_next_physical_plan ==
    /\ Running
    /\ gen.pos < Len(plan.requests)
    /\ gen' = [gen EXCEPT !.pos = @ + 1]
    /\ tasks' = finalize(tasks, PartitionTaskBuilder(<<>>, <<>>, plan.requests[gen.pos + 1]), 1)
    /\ queue' = Append(queue, Len(tasks) + 1)
    /\ last' = TaskItem(Len(tasks) + 1)
    /\ UNCHANGED <<plan, out, suspended, cache, run, ref, in_flight, failed, error, result>>
    /\ UNCHANGED trace

\* Dispatch phase, for the pulled task t: a request beyond the hard caps is
\* fatal; an admitted task is dispatched; any other stays queued.
dispatching(t) ==
    /\ Running
    /\ \E i \in 1..Len(queue) : queue[i] = t
    /\ IF exceeds_hard_caps(tasks[t].resource_request)
       THEN /\ failed' = TRUE
            /\ error' = first_error([kind |-> "ResourceExhausted", task |-> t])
            /\ tasks' = cancel_in_flight(tasks)
            /\ in_flight' = {}
            /\ queue' = Remove(queue, t)
       ELSE /\ can_admit(tasks[t].resource_request)
            /\ tasks' = [tasks EXCEPT ![t].status = "running"]
            /\ in_flight' = in_flight \cup {t}
            /\ queue' = Remove(queue, t)
            /\ UNCHANGED <<failed, error>>
    /\ UNCHANGED <<plan, gen, out, last, suspended, cache, run, ref, result>>
    /\ UNCHANGED trace

\* Await phase: task t has completed; its outputs enter the partition cache
\* and its resources are released.
task_received_as_ready(t) ==
    /\ Running
    /\ t \in in_flight
    /\ tasks' = [tasks EXCEPT ![t].status = "done"]
    /\ cache' = cache \cup {t}
    /\ in_flight' = in_flight \ {t}
    /\ UNCHANGED <<plan, gen, out, last, suspended, run, ref, queue, failed, error, result>>
    /\ UNCHANGED trace

\* Task t has failed: the query fails, every task in flight is cancelled.
task_failed(t) ==
    /\ Running
    /\ t \in in_flight
    /\ failed' = TRUE
    /\ error' = first_error([kind |-> "TaskFatal", task |-> t])
    /\ tasks' = [cancel_in_flight(tasks) EXCEPT ![t].status = "failed"]
    /\ in_flight' = {}
    /\ UNCHANGED <<plan, gen, out, last, suspended, cache, run, ref, queue, result>>
    /\ UNCHANGED trace

\* A cancelled task reports after the failure, with an output (dropped) or
\* with an error of its own.
cancelled_task_reports(t, ok) ==
    /\ failed /\ result = "none"
    /\ tasks[t].status = "cancelled"
    /\ tasks' = [tasks EXCEPT ![t].status = IF ok THEN "dropped" ELSE "failed_after_cancel"]
    /\ error' = IF ok THEN error ELSE first_error([kind |-> "TaskFatal", task |-> t])
    /\ UNCHANGED <<plan, gen, out, last, suspended, cache, run, ref,
                   queue, in_flight, failed, result>>
    /\ UNCHANGED trace

\* The main loop ends: with the partition list once the plan is exhausted and
\* nothing is queued or in flight, with the error once a task has failed.
run_ends ==
    /\ result = "none"
    /\ IF failed THEN result' = "raised"
       ELSE /\ gen.pos = Len(plan.requests) /\ queue = <<>> /\ in_flight = {}
            /\ result' = "returned"
    /\ UNCHANGED <<plan, gen, tasks, out, last, suspended, cache, run, ref,
                   queue, in_flight, failed, error>>
    /\ UNCHANGED trace

NextSched ==
    \/ get_next_physical_plan
    \/ \E t \in 1..Len(tasks) : dispatching(t)
    \/ \E t \in 1..Len(tasks) : task_received_as_ready(t)
    \/ \E t \in 1..Len(tasks) : task_failed(t)
    \/ \E t \in 1..Len(tasks), ok \in BOOLEAN : cancelled_task_reports(t, ok)
    \/ run_ends

\* The main loop keeps running its phases, and workers keep reporting.
FairSched ==
    /\ WF_vars(get_next_physical_plan)
    /\ \A t \in 1..MaxTasks : WF_vars(dispatching(t))
    /\ \A t \in 1..MaxTasks : WF_vars(task_received_as_ready(t) \/ task_failed(t))
    /\ WF_vars(run_ends)

SpecSched == InitSched /\ [][NextSched]_vars /\ FairSched

(***************************************************************************)
(* Table.partition_by_hash: a table is a sequence of rows, a row has the   *)
(* values K of its key columns and its index in the table.                 *)
(***************************************************************************)
MaxHashRows == 3    \* rows of a table
MaxHashKey == 2     \* key values are 0..MaxHashKey
MaxHashParts == 3   \* partitions asked for are -1..MaxHashParts
HashWidth == 256

\* A hash of the key values that depends on nothing else.
RECURSIVE stable_hash(_)
stable_hash(K) ==
    IF K = <<>> THEN 7 ELSE (31 * stable_hash(Tail(K)) + 5 * Head(K) + 3) % HashWidth

\* Mutant: rows are dealt out by their index.
partition_index_by_row(row, n) == row.ind % n

\* The output index of a row: stable_hash(K) mod n.
partition_index(row, n) == stable_hash(row.K) % n

\* The n outputs, or the error for n <= 0.
partition_by_hash(table, n) ==
    IF n < 0 THEN [kind |-> "error", error |-> "negative number", outputs |-> <<>>]
    ELSE IF n = 0 THEN [kind |-> "error", error |-> "0 partitions", outputs |-> <<>>]
    ELSE [kind |-> "returned", error |-> "",
          outputs |-> [i \in 1..n |->
                          SelectSeq(table, LAMBDA row : partition_index(row, n) = i - 1)]]

HashKeys == {<<x>> : x \in 0..MaxHashKey} \cup {<<x, y>> : x \in 0..MaxHashKey, y \in 0..1}

Table(ks) == [i \in 1..Len(ks) |-> [K |-> ks[i], ind |-> i]]

\* Tables of 0..MaxHashRows rows whose keys have the same number of columns.
HashTables ==
    {Table(ks) : ks \in {s \in SeqsUpTo(HashKeys, MaxHashRows) :
                            \A i \in 1..Len(s) : Len(s[i]) = Len(s[1])}}

\* The variables of the runs of plans, at rest.
NoRun ==
    /\ gen = [type |-> "none"]
    /\ tasks = <<>>
    /\ suspended = FALSE
    /\ cache = {}
    /\ run = 1
    /\ ref = <<>>
    /\ SchedulerIdle

InitHash ==
    /\ plan \in {[kind |-> "partition_by_hash", table |-> t, num_partitions |-> n] :
                    t \in HashTables, n \in -1..MaxHashParts}
    /\ out = <<>>
    /\ last = [kind |-> "start"]
    /\ NoRun

CallPartitionByHash ==
    /\ plan.kind = "partition_by_hash"
    /\ last.kind = "start"
    /\ LET r == partition_by_hash(plan.table, plan.num_partitions)
       IN /\ out' = r.outputs
          /\ last' = [kind |-> r.kind, error |-> r.error]
    /\ UNCHANGED <<plan, gen, tasks, suspended, cache, run, ref>>
    /\ UNCHANGED schedvars

NextHash == CallPartitionByHash

SpecHash == InitHash /\ [][NextHash]_vars

(***************************************************************************)
(* The tracer of the scheduler (ray_tracing.py): the events of a run.  The *)
(* plan is a sequence of items, a task of some stage or None.              *)
(***************************************************************************)
MaxTraced == 2     \* items of a traced plan
MaxStages == 2     \* stage ids are 1..MaxStages
SCHEDULER_PID == 1
STAGES_PID == 2

Event(ph, name, id, pid, tid) == [ph |-> ph, name |-> name, id |-> id, pid |-> pid, tid |-> tid]

\* TraceWriter.write_event.
write_event(tr, event) == [tr EXCEPT !.events = Append(@, event)]

\* RunnerTracer.task_created: async begin of the task's execution; the stage
\* is recorded when it is first seen.
task_created(tr, task_id, stage_id) ==
    LET w == write_event(tr, Event("b", <<"task_execution.stage", stage_id>>, task_id,
                                   SCHEDULER_PID, 1))
    IN IF \E i \in 1..Len(tr.stage_start_end) : tr.stage_start_end[i] = stage_id
       THEN w
       ELSE [w EXCEPT !.stage_start_end = Append(@, stage_id)]

\* RunnerTracer.task_dispatched.
task_dispatched(tr, task_id) ==
    write_event(tr, Event("b", <<"task_dispatch">>, task_id, SCHEDULER_PID, 1))

\* RunnerTracer.task_received_as_ready.
received_as_ready(tr, task_id, stage_id) ==
    write_event(write_event(tr, Event("e", <<"task_dispatch">>, task_id, SCHEDULER_PID, 1)),
                Event("e", <<"task_execution.stage", stage_id>>, task_id, SCHEDULER_PID, 1))

\* RunnerTracer._write_stages, from stage i on.
RECURSIVE write_stages(_, _)
write_stages(tr, i) ==
    IF i > Len(tr.stage_start_end) THEN tr
    ELSE LET stage_id == tr.stage_start_end[i]
         IN write_stages(
                write_event(write_event(write_event(tr,
                    Event("B", <<"stage", stage_id>>, 0, STAGES_PID, stage_id)),
                    Event("s", <<"stage-to-node-flow">>, stage_id, STAGES_PID, stage_id)),
                    Event("E", <<"stage", stage_id>>, 0, STAGES_PID, stage_id)),
                i + 1)

\* RunnerTracer.get_next_physical_plan after its yield: the end event is
\* written unless the body of the with statement has raised.
next_end(tr, raised) ==
    IF raised THEN tr ELSE write_event(tr, Event("E", <<"next(tasks)">>, 0, SCHEDULER_PID, 1))

TracedItems ==
    {[kind |-> "task", stage_id |-> st] : st \in 1..MaxStages} \cup {[kind |-> "none"]}

TracedPlans == {[kind |-> "traced", items |-> is] : is \in SeqsUpTo(TracedItems, MaxTraced)}

InitTrace ==
    /\ plan \in TracedPlans
    /\ gen = [type |-> "traced", pos |-> 0, exhausted |-> FALSE]
    /\ tasks = <<>>
    /\ out = <<>>
    /\ last = [kind |-> "start"]
    /\ suspended = FALSE
    /\ cache = {}
    /\ run = 1
    /\ ref = <<>>
    /\ SchedulerIdle

\* MaterializedPhysicalPlanWrapper.__next__: the pull is traced as a duration
\* event around next(plan); a task is traced as created.  On the exhausted
\* plan next(plan) raises StopIteration inside the with statement.
MaterializedPhysicalPlanWrapper_next ==
    /\ Running /\ ~gen.exhausted
    /\ queue = <<>>
    /\ LET began == write_event(trace, Event("B", <<"next(tasks)">>, 0, SCHEDULER_PID, 1))
       IN IF gen.pos = Len(plan.items)
          THEN /\ gen' = [gen EXCEPT !.exhausted = TRUE]
               /\ trace' = next_end(began, TRUE)
               /\ last' = StopItem
               /\ UNCHANGED <<tasks, queue>>
          ELSE LET item == plan.items[gen.pos + 1]
               IN /\ gen' = [gen EXCEPT !.pos = @ + 1]
                  /\ IF item.kind = "task"
                     THEN /\ tasks' = Append(tasks, [status |-> "pending",
                                                     stage_id |-> item.stage_id])
                          /\ queue' = Append(queue, Len(tasks) + 1)
                          /\ last' = TaskItem(Len(tasks) + 1)
                          /\ trace' = next_end(task_created(began, Len(tasks) + 1,
                                                            item.stage_id), FALSE)
                     ELSE /\ last' = NoneItem
                          /\ trace' = next_end(began, FALSE)
                          /\ UNCHANGED <<tasks, queue>>
    /\ UNCHANGED <<plan, out, suspended, cache, run, ref, in_flight, failed, error, result>>

\* RayRunnableFunctionWrapper.remote: the pulled task is dispatched.
RayRunnableFunctionWrapper_remote(t) ==
    /\ Running
    /\ queue # <<>> /\ Head(queue) = t
    /\ trace' = task_dispatched(trace, t)
    /\ tasks' = [tasks EXCEPT ![t].status = "running"]
    /\ in_flight' = in_flight \cup {t}
    /\ queue' = Tail(queue)
    /\ UNCHANGED <<plan, gen, out, last, suspended, cache, run, ref, failed, error, result>>

\* The scheduler receives task t as ready.
traced_received_as_ready(t) ==
    /\ Running
    /\ t \in in_flight
    /\ trace' = received_as_ready(trace, t, tasks[t].stage_id)
    /\ tasks' = [tasks EXCEPT ![t].status = "done"]
    /\ cache' = cache \cup {t}
    /\ in_flight' = in_flight \ {t}
    /\ UNCHANGED <<plan, gen, out, last, suspended, run, ref, queue, failed, error, result>>

\* Task t fails: the tasks in flight are cancelled and the run raises; the
\* tracer has no hook for a failed or cancelled task, and ray_tracer does not
\* finalize when its body raises.
traced_task_failed(t) ==
    /\ Running
    /\ t \in in_flight
    /\ failed' = TRUE
    /\ error' = first_error([kind |-> "TaskFatal", task |-> t])
    /\ tasks' = [i \in 1..Len(tasks) |->
                    IF i = t THEN [tasks[i] EXCEPT !.status = "failed"]
                    ELSE IF i \in in_flight THEN [tasks[i] EXCEPT !.status = "cancelled"]
                    ELSE tasks[i]]
    /\ in_flight' = {}
    /\ result' = "raised"
    /\ UNCHANGED <<plan, gen, out, last, suspended, cache, run, ref, queue, trace>>

\* RunnerTracer.finalize, at the end of a run that returns.
RunnerTracer_finalize ==
    /\ Running
    /\ gen.exhausted /\ queue = <<>> /\ in_flight = {}
    /\ trace' = write_stages(trace, 1)
    /\ result' = "returned"
    /\ UNCHANGED <<plan, gen, tasks, out, last, suspended, cache, run, ref,
                   queue, in_flight, failed, error>>

NextTrace ==
    \/ MaterializedPhysicalPlanWrapper_next
    \/ \E t \in 1..Len(tasks) : RayRunnableFunctionWrapper_remote(t)
    \/ \E t \in 1..Len(tasks) : traced_received_as_ready(t)
    \/ \E t \in 1..Len(tasks) : traced_task_failed(t)
    \/ RunnerTracer_finalize

SpecTrace == InitTrace /\ [][NextTrace]_vars

(***************************************************************************)
(* Release of partitions: the partition cache gives up the output of a     *)
(* task once nothing refers to it any more.                                *)
(***************************************************************************)
\* The tasks a generator frame refers to: those it has queued, and the task
\* global_limit last applied its limit to (the local done_task), until the
\* generator has returned.
RECURSIVE Held(_)
Held(g) ==
    CASE g.type = "materialize" ->
            {g.materializations[i] : i \in 1..Len(g.materializations)} \cup Held(g.child)
      [] g.type = "global_limit" ->
            IF g.pc = "done" THEN {}
            ELSE {g.materializations[i] : i \in 1..Len(g.materializations)}
                     \cup (IF g.done_task > 0 THEN {g.done_task} ELSE {})
                     \cup Held(g.child)
      [] g.type = "local_limit" -> Held(g.child)
      [] OTHER -> {}

\* A task that has not reported lists the output of t among its inputs.
IsInput(t) ==
    \E u \in 1..Len(tasks) :
        /\ tasks[u].status = "pending"
        /\ \E i \in 1..Len(tasks[u].inputs) :
               tasks[u].inputs[i].src = "task" /\ tasks[u].inputs[i].id = t

\* Mutant: only the inputs of tasks count as references.
Referenced_by_tasks(t) == IsInput(t)

\* Something still refers to the output of t.
Referenced(t) == IsInput(t) \/ t \in Held(gen)

\* The limits of materialized global_limit plans over partitions of MaxRows rows.
CachePlans ==
    {Materialized(p) :
        p \in {q \in GlobalLimitPlans :
                  \A i \in 1..Len(q.partitions) : q.partitions[i] = Rows(MaxRows)}}

InitCache ==
    /\ plan \in CachePlans
    /\ Start(plan)
    /\ run = 1
    /\ ref = <<>>
    /\ SchedulerIdle

\* The output of t is released from the partition cache.
Release(t) ==
    /\ t \in cache
    /\ ~Referenced(t)
    /\ cache' = cache \ {t}
    /\ UNCHANGED <<plan, gen, tasks, out, last, suspended, run, ref>>
    /\ UNCHANGED schedvars

NextCache ==
    \/ PullNext
    \/ \E t \in 1..Len(tasks) : Complete(t)
    \/ \E t \in 1..Len(tasks) : Release(t)

SpecCache == InitCache /\ [][NextCache]_vars

(***************************************************************************)
(* Joins of two children that differ: the left one a partition_read or a   *)
(* file_read (which yields tasks of its own and None), the right one a     *)
(* partition_read of partitions of two rows.                               *)
(***************************************************************************)
JoinSidesPlans ==
    {[kind |-> "join_sides", left |-> l, n_left |-> nl, n_right |-> nr,
      partitions |-> [i \in 1..nl |-> Rows(1)],
      frame |-> Join(IF l = "file_read"
                     THEN FileRead(PartitionRead([i \in 1..nl |-> Rows(1)]))
                     ELSE PartitionRead([i \in 1..nl |-> Rows(1)]),
                     PartitionRead([i \in 1..nr |-> Rows(2)]))] :
        l \in {"partition_read", "file_read"}, nl \in 0..MaxJoin, nr \in 0..MaxJoin}

InitJoinSides ==
    /\ plan \in JoinSidesPlans
    /\ Start(plan)
    /\ run = 1
    /\ ref = <<>>
    /\ SchedulerIdle

NextJoinSides ==
    \/ PullNext
    \/ \E t \in 1..Len(tasks) : Complete(t)

\* The scheduler keeps pulling, and every dispatched task completes.
SpecJoinSides ==
    /\ InitJoinSides
    /\ [][NextJoinSides]_vars
    /\ WF_vars(PullNext)
    /\ WF_vars(\E t \in 1..Len(tasks) : Complete(t))

(***************************************************************************)
(* global_limit over a file_read: the child of its local_limit yields      *)
(* tasks of its own and None between its builders.                         *)
(***************************************************************************)
\* Limits of the files of 1..MaxListings listings of one file each.
LimitedReadPlans ==
    {[kind |-> "limited_read", num |-> n, partitions |-> [i \in 1..m |-> Rows(1)],
      frame |-> GlobalLimit(FileRead(PartitionRead([i \in 1..m |-> Rows(1)])), n, m)] :
        n \in 0..MaxLimit, m \in 1..MaxListings}

InitLimitedRead ==
    /\ plan \in LimitedReadPlans
    /\ Start(plan)
    /\ run = 1
    /\ ref = <<>>
    /\ SchedulerIdle

NextLimitedRead ==
    \/ PullNext
    \/ \E t \in 1..Len(tasks) : Complete(t)

SpecLimitedRead == InitLimitedRead /\ [][NextLimitedRead]_vars

(***************************************************************************)
(* reduce over a random fanout of 0..MaxFanout partitions.                 *)
(***************************************************************************)
ReducePlans ==
    {[kind |-> "reduce", num_partitions |-> n, partitions |-> ps,
      frame |-> Reduce(FanoutRandom(PartitionRead(ps), n), n, [op |-> "ReduceMerge"])] :
        n \in 1..MaxFanout, ps \in SeqsUpTo({Rows(k) : k \in 0..MaxRows}, MaxFanout)}

InitReduce ==
    /\ plan \in ReducePlans
    /\ Start(plan)
    /\ run = 1
    /\ ref = <<>>
    /\ SchedulerIdle

NextReduce ==
    \/ PullNext
    \/ \E t \in 1..Len(tasks) : Complete(t)

SpecReduce == InitReduce /\ [][NextReduce]_vars

(***************************************************************************)
(* Every kind of plan under the single-threaded runner.                    *)
(***************************************************************************)
SingleThreadedPlans ==
    SyncPlans \cup {Materialized(p) : p \in Plans \cup ReducePlans}

InitSingleThreaded ==
    /\ plan \in SingleThreadedPlans
    /\ Start(plan)
    /\ run = 1
    /\ ref = <<>>
    /\ SchedulerIdle

SpecSingleThreaded == InitSingleThreaded /\ [][NextSync]_vars

(***************************************************************************)
(* Chains of pipeline_instruction: instructions fused, one after another,  *)
(* into the builders of a partition_read or of a file_read.                *)
(***************************************************************************)
MaxFused == 2      \* instructions fused into one builder

FusedRequests == {ResourceRequest(1, 0, 1), ResourceRequest(2, 1, 0), ResourceRequest(0, 0, 2)}

\* The i-th fused instruction and its request.
FusedSteps(rs) == [i \in 1..Len(rs) |-> [instr |-> [op |-> "Project", id |-> i], rr |-> rs[i]]]

\* pipeline_instruction over pipeline_instruction ... over child, the first
\* step innermost.
RECURSIVE Pipelined(_, _)
Pipelined(child, steps) ==
    IF steps = <<>> THEN child
    ELSE Pipelined(PipelineInstruction(child, Head(steps).instr, Head(steps).rr), Tail(steps))

FusedPlans ==
    {[kind |-> "fused", base |-> b, steps |-> FusedSteps(rs), partitions |-> ps,
      frame |-> Pipelined(IF b = "file_read" THEN FileRead(PartitionRead(ps))
                          ELSE PartitionRead(ps),
                          FusedSteps(rs))] :
        b \in {"partition_read", "file_read"},
        rs \in {r \in SeqsUpTo(FusedRequests, MaxFused) : Len(r) >= 1},
        ps \in {<<Rows(MaxRows)>>, <<Rows(1), Rows(MaxRows)>>}}

InitFused ==
    /\ plan \in FusedPlans
    /\ Start(plan)
    /\ run = 1
    /\ ref = <<>>
    /\ SchedulerIdle

NextFused ==
    \/ PullNext
    \/ \E t \in 1..Len(tasks) : Complete(t)

SpecFused == InitFused /\ [][NextFused]_vars

(***************************************************************************)
(* The rule-based optimizer of logical plans (logical/optimizer.py).  A    *)
(* logical plan is a tree of nodes; an expression has the column ID it     *)
(* produces and the column IDs it requires.                                *)
(***************************************************************************)
MaxDepth == 3      \* nodes above the scan of a logical plan

\* A rule's "no change".
NoChange == [op |-> "None"]

\* Expressions: a column, a computed expression, a filter conjunct (true of
\* the rows whose required columns are all >= min).
Col(c) == [id |-> c, req |-> {c}, min |-> 0]
Computed(id, req) == [id |-> id, req |-> req, min |-> 0]
Pred(id, req, min) == [id |-> id, req |-> req, min |-> min]

\* ExpressionList.to_id_set, ExpressionList.required_columns().to_id_set.
to_id_set(es) == {es[i].id : i \in 1..Len(es)}
required_ids(es) == UNION {es[i].req : i \in 1..Len(es)}
is_column(e) == e.req = {e.id}

\* ExpressionList.union: the expressions of other that self does not have
\* are appended.
union(self, other) ==
    self \o SelectSeq(other, LAMBDA e : \A i \in 1..Len(self) : self[i] # e)

\* Keep the expressions whose ID is in ids.
Keep(es, ids) == SelectSeq(es, LAMBDA e : e.id \in ids)

\* The nodes.
Scan(schema, columns, num_partitions) ==
    [op |-> "Scan", children |-> <<>>, schema |-> schema, columns |-> columns,
     num_partitions |-> num_partitions]
Filter(input, predicate) == [op |-> "Filter", children |-> <<input>>, predicate |-> predicate]
Projection(input, projection) ==
    [op |-> "Projection", children |-> <<input>>, projection |-> projection]
Repartition(input, partition_by, num_partitions, scheme) ==
    [op |-> "Repartition", children |-> <<input>>, partition_by |-> partition_by,
     num_partitions |-> num_partitions, scheme |-> scheme]
LogicalCoalesce(input, num_partitions) ==
    [op |-> "Coalesce", children |-> <<input>>, num_partitions |-> num_partitions]
LogicalSort(input, sort_by) == [op |-> "Sort", children |-> <<input>>, sort_by |-> sort_by]
LocalLimit(input, num) == [op |-> "LocalLimit", children |-> <<input>>, num |-> num]
LogicalGlobalLimit(input, num) == [op |-> "GlobalLimit", children |-> <<input>>, num |-> num]
LocalAggregate(input, agg, group_by) ==
    [op |-> "LocalAggregate", children |-> <<input>>, agg |-> agg, group_by |-> group_by]
LogicalJoin(left, right, left_on, right_on) ==
    [op |-> "Join", children |-> <<left, right>>, left_on |-> left_on, right_on |-> right_on]

copy_with_new_children(p, new_children) == [p EXCEPT !.children = new_children]

\* LogicalPlan.schema: the expressions a node outputs.
RECURSIVE schema(_)
schema(p) ==
    CASE p.op = "Scan" -> Keep(p.schema, p.columns)
      [] p.op = "Projection" -> p.projection
      [] p.op = "LocalAggregate" -> p.group_by \o p.agg
      [] p.op = "Join" -> schema(p.children[1]) \o schema(p.children[2])
      [] OTHER -> schema(p.children[1])

\* The schema as columns: what a node above refers to.
Columns(p) == LET s == schema(p) IN [i \in 1..Len(s) |-> Col(s[i].id)]

\* LogicalPlan.required_columns().to_id_set.
required_columns(p) ==
    CASE p.op = "Filter" -> required_ids(p.predicate)
      [] p.op = "Projection" -> required_ids(p.projection)
      [] p.op = "Repartition" -> required_ids(p.partition_by)
      [] p.op = "Sort" -> required_ids(p.sort_by)
      [] p.op = "LocalAggregate" -> required_ids(p.agg) \cup required_ids(p.group_by)
      [] p.op = "Join" -> required_ids(p.left_on) \cup required_ids(p.right_on)
      [] OTHER -> {}

PartitionSpec(scheme, num_partitions, by) ==
    [scheme |-> scheme, num_partitions |-> num_partitions, by |-> by]

\* LogicalPlan.partition_spec.
RECURSIVE partition_spec(_)
partition_spec(p) ==
    CASE p.op = "Scan" -> PartitionSpec("UNKNOWN", p.num_partitions, <<>>)
      [] p.op = "Repartition" -> PartitionSpec(p.scheme, p.num_partitions, p.partition_by)
      [] p.op = "Coalesce" -> PartitionSpec("UNKNOWN", p.num_partitions, <<>>)
      [] p.op = "Sort" ->
            PartitionSpec("RANGE", partition_spec(p.children[1]).num_partitions, p.sort_by)
      [] p.op = "Join" ->
            PartitionSpec("HASH", Max(partition_spec(p.children[1]).num_partitions,
                                      partition_spec(p.children[2]).num_partitions), p.left_on)
      [] OTHER -> partition_spec(p.children[1])

num_partitions(p) == partition_spec(p).num_partitions

\* CombineFilters._combine_filters.
combine_filters(parent, child) ==
    Filter(child.children[1], union(parent.predicate, child.predicate))

\* PushDownPredicates._filter_through_projection.
filter_through_projection(parent, child) ==
    LET grandchild == child.children[1]
        ids_produced_by_grandchild == to_id_set(schema(grandchild))
        can_push_down ==
            SelectSeq(parent.predicate, LAMBDA pred : pred.req \subseteq ids_produced_by_grandchild)
        can_not_push_down ==
            SelectSeq(parent.predicate, LAMBDA pred : ~(pred.req \subseteq ids_produced_by_grandchild))
        pushed_down_filter == Projection(Filter(grandchild, can_push_down), child.projection)
    IN IF Len(can_push_down) = 0 THEN NoChange
       ELSE IF Len(can_not_push_down) = 0 THEN pushed_down_filter
       ELSE Filter(pushed_down_filter, can_not_push_down)

\* PushDownPredicates._filter_through_unary_node.
filter_through_unary_node(parent, child) ==
    copy_with_new_children(child, <<Filter(child.children[1], parent.predicate)>>)

\* Mutant: the conjuncts that cannot be pushed down are not kept.
filter_through_join_pushed_only(parent, child) ==
    LET left == child.children[1]
        right == child.children[2]
        left_ids == to_id_set(schema(left))
        right_ids == to_id_set(schema(right))
        left_push_down == SelectSeq(parent.predicate, LAMBDA pred : pred.req \subseteq left_ids)
        right_push_down ==
            SelectSeq(parent.predicate,
                      LAMBDA pred : ~(pred.req \subseteq left_ids) /\ pred.req \subseteq right_ids)
    IN IF Len(left_push_down) = 0 /\ Len(right_push_down) = 0 THEN NoChange
       ELSE copy_with_new_children(child,
                <<IF Len(left_push_down) > 0 THEN Filter(left, left_push_down) ELSE left,
                  IF Len(right_push_down) > 0 THEN Filter(right, right_push_down) ELSE right>>)

\* PushDownPredicates._filter_through_join.
filter_through_join(parent, child) ==
    LET left == child.children[1]
        right == child.children[2]
        left_ids == to_id_set(schema(left))
        right_ids == to_id_set(schema(right))
        left_push_down == SelectSeq(parent.predicate, LAMBDA pred : pred.req \subseteq left_ids)
        right_push_down ==
            SelectSeq(parent.predicate,
                      LAMBDA pred : ~(pred.req \subseteq left_ids) /\ pred.req \subseteq right_ids)
        can_not_push_down ==
            SelectSeq(parent.predicate,
                      LAMBDA pred : ~(pred.req \subseteq left_ids) /\ ~(pred.req \subseteq right_ids))
        new_join ==
            copy_with_new_children(child,
                <<IF Len(left_push_down) > 0 THEN Filter(left, left_push_down) ELSE left,
                  IF Len(right_push_down) > 0 THEN Filter(right, right_push_down) ELSE right>>)
    IN IF Len(left_push_down) = 0 /\ Len(right_push_down) = 0 THEN NoChange
       ELSE IF Len(can_not_push_down) = 0 THEN new_join
       ELSE Filter(new_join, can_not_push_down)

\* PushDownPredicates: the function registered for (parent, child).
PushDownPredicates(parent, child) ==
    IF parent.op # "Filter" THEN NoChange
    ELSE CASE child.op = "Filter" -> combine_filters(parent, child)
           [] child.op = "Projection" -> filter_through_projection(parent, child)
           [] child.op \in {"Sort", "Repartition", "Coalesce"} ->
                 filter_through_unary_node(parent, child)
           [] child.op = "Join" -> filter_through_join(parent, child)
           [] OTHER -> NoChange

\* PruneColumns._create_pruning_child.
create_pruning_child(child, parent_id_set) ==
    IF to_id_set(schema(child)) \subseteq parent_id_set THEN child
    ELSE Projection(child, Keep(Columns(child), parent_id_set))

\* PruneColumns._projection_projection.
projection_projection(parent, child) ==
    LET parent_required_set == required_columns(parent)
    IN IF to_id_set(schema(child)) \subseteq parent_required_set THEN NoChange
       ELSE Projection(Projection(child.children[1], Keep(schema(child), parent_required_set)),
                       parent.projection)

\* PruneColumns._projection_aggregate.
projection_aggregate(parent, child) ==
    LET parent_required_set == required_columns(parent)
        new_agg_pairs == Keep(child.agg, parent_required_set)
    IN IF to_id_set(child.agg) \subseteq parent_required_set THEN NoChange
       ELSE IF Len(new_agg_pairs) = 0 THEN NoChange
       ELSE Projection(LocalAggregate(child.children[1], new_agg_pairs, child.group_by),
                       parent.projection)

\* PruneColumns._aggregate_logical_plan.
aggregate_logical_plan(parent, child) ==
    LET parent_required_set == required_columns(parent)
    IN IF to_id_set(schema(child)) \subseteq parent_required_set THEN NoChange
       ELSE LocalAggregate(create_pruning_child(child, parent_required_set),
                           parent.agg, parent.group_by)

\* Mutant: only the columns the projection requires are kept below its child.
projection_logical_plan_parent_only(parent, child) ==
    LET required_set == required_columns(parent)
    IN IF child.op \in {"Projection", "LocalAggregate"} THEN NoChange
       ELSE IF Len(child.children) = 0 THEN NoChange
       ELSE IF to_id_set(schema(child)) \subseteq required_set THEN NoChange
       ELSE copy_with_new_children(parent,
                <<copy_with_new_children(child,
                    [i \in 1..Len(child.children) |->
                        create_pruning_child(child.children[i], required_set)])>>)

\* PruneColumns._projection_logical_plan.
projection_logical_plan(parent, child) ==
    LET required_set == required_columns(parent) \cup required_columns(child)
    IN IF child.op \in {"Projection", "LocalAggregate"} THEN NoChange
       ELSE IF Len(child.children) = 0 THEN NoChange
       ELSE IF to_id_set(schema(child)) \subseteq required_set THEN NoChange
       ELSE copy_with_new_children(parent,
                <<copy_with_new_children(child,
                    [i \in 1..Len(child.children) |->
                        create_pruning_child(child.children[i], required_set)])>>)

\* PruneColumns: the function registered for (parent, child).
PruneColumns(parent, child) ==
    CASE parent.op = "Projection" /\ child.op = "Projection" -> projection_projection(parent, child)
      [] parent.op = "Projection" /\ child.op = "LocalAggregate" ->
            projection_aggregate(parent, child)
      [] parent.op = "LocalAggregate" -> aggregate_logical_plan(parent, child)
      [] parent.op = "Projection" -> projection_logical_plan(parent, child)
      [] OTHER -> NoChange

\* DropRepartition._drop_repartition_if_same_spec.
drop_repartition_if_same_spec(parent, child) ==
    IF \/ /\ partition_spec(parent) = partition_spec(child)
          /\ partition_spec(parent).scheme # "RANGE"
       \/ num_partitions(parent) = 1 /\ num_partitions(child) = 1
    THEN child
    ELSE NoChange

\* Mutant: the two repartitions change places.
drop_double_repartition_swapped(parent, child) ==
    Repartition(Repartition(child.children[1], parent.partition_by, num_partitions(parent),
                            partition_spec(parent).scheme),
                child.partition_by, child.num_partitions, child.scheme)

\* DropRepartition._drop_double_repartition.
drop_double_repartition(parent, child) ==
    Repartition(child.children[1], parent.partition_by, num_partitions(parent),
                partition_spec(parent).scheme)

\* DropRepartition: the function registered for (parent, child).
DropRepartition(parent, child) ==
    CASE parent.op = "Repartition" /\ child.op = "Repartition" ->
            drop_double_repartition(parent, child)
      [] parent.op = "Repartition" -> drop_repartition_if_same_spec(parent, child)
      [] OTHER -> NoChange

\* PushDownClausesIntoScan._push_down_projections_into_scan.
push_down_projections_into_scan(parent, child) ==
    LET required == required_ids(schema(parent))
    IN IF required = to_id_set(schema(child)) THEN NoChange
       ELSE Projection(Scan(child.schema, required, child.num_partitions), parent.projection)

PushDownClausesIntoScan(parent, child) ==
    IF parent.op = "Projection" /\ child.op = "Scan"
    THEN push_down_projections_into_scan(parent, child)
    ELSE NoChange

\* FoldProjections._push_down_predicates_into_scan.
fold_projections(parent, child) ==
    IF required_ids(parent.projection) \subseteq to_id_set(schema(child.children[1]))
    THEN Projection(child.children[1], parent.projection)
    ELSE NoChange

FoldProjections(parent, child) ==
    IF parent.op = "Projection" /\ child.op = "Projection"
    THEN fold_projections(parent, child)
    ELSE NoChange

\* PushDownLimit._push_down_local_limit_into_unary_node.
push_down_local_limit_into_unary_node(parent, child) ==
    copy_with_new_children(child, <<LocalLimit(child.children[1], parent.num)>>)

\* PushDownLimit._push_down_global_limit_into_unary_node.
push_down_global_limit_into_unary_node(parent, child) ==
    copy_with_new_children(child, <<LogicalGlobalLimit(child.children[1], parent.num)>>)

\* Mutant: a limit is pushed below a Filter as well.
PushDownLimit_below_filter(parent, child) ==
    IF child.op \in {"Repartition", "Coalesce", "Projection", "Filter"}
    THEN CASE parent.op = "LocalLimit" -> push_down_local_limit_into_unary_node(parent, child)
           [] parent.op = "GlobalLimit" -> push_down_global_limit_into_unary_node(parent, child)
           [] OTHER -> NoChange
    ELSE NoChange

\* PushDownLimit: the function registered for (parent, child).
PushDownLimit(parent, child) ==
    IF child.op \in {"Repartition", "Coalesce", "Projection"}
    THEN CASE parent.op = "LocalLimit" -> push_down_local_limit_into_unary_node(parent, child)
           [] parent.op = "GlobalLimit" -> push_down_global_limit_into_unary_node(parent, child)
           [] OTHER -> NoChange
    ELSE NoChange

\* DropProjections: a projection of exactly the columns of its child, in
\* their order, is dropped.
DropProjections(parent, child) ==
    IF /\ parent.op = "Projection"
       /\ \A i \in 1..Len(parent.projection) : is_column(parent.projection[i])
       /\ Len(parent.projection) = Len(schema(child))
       /\ \A i \in 1..Len(parent.projection) : parent.projection[i].id = schema(child)[i].id
    THEN child
    ELSE NoChange

\* Rule.dispatch_fn and the call of the function it finds.
apply_rule(rule, parent, child) ==
    CASE rule = "DropRepartition" -> DropRepartition(parent, child)
      [] rule = "PushDownPredicates" -> PushDownPredicates(parent, child)
      [] rule = "PruneColumns" -> PruneColumns(parent, child)
      [] rule = "FoldProjections" -> FoldProjections(parent, child)
      [] rule = "PushDownClausesIntoScan" -> PushDownClausesIntoScan(parent, child)
      [] rule = "PushDownLimit" -> PushDownLimit(parent, child)
      [] rule = "DropProjections" -> DropProjections(parent, child)

\* One top-down pass of a rule: at a node the rule is applied at most once,
\* to the node and the first child it changes; the pass goes on in the
\* children of the node that results.
RECURSIVE run_single_rule(_, _)
run_single_rule(root, rule) ==
    LET tried == [i \in 1..Len(root.children) |-> apply_rule(rule, root, root.children[i])]
        hits == {i \in 1..Len(root.children) : tried[i] # NoChange}
        new_root == IF hits = {} THEN root
                    ELSE tried[CHOOSE i \in hits : \A j \in hits : i <= j]
    IN copy_with_new_children(new_root,
           [i \in 1..Len(new_root.children) |-> run_single_rule(new_root.children[i], rule)])

\* The rules of a batch, one pass each, in order.
RECURSIVE run_rules(_, _)
run_rules(root, rules) ==
    IF rules = <<>> THEN root
    ELSE run_rules(run_single_rule(root, Head(rules)), Tail(rules))

\* A batch run until nothing changes, at most max_iters times.
RECURSIVE run_fixed_point(_, _, _)
run_fixed_point(root, rules, max_iters) ==
    IF max_iters = 0 THEN root
    ELSE LET next == run_rules(root, rules)
         IN IF next = root THEN root ELSE run_fixed_point(next, rules, max_iters - 1)

\* The number of times run_fixed_point runs the batch.
RECURSIVE fixed_point_iterations(_, _, _)
fixed_point_iterations(root, rules, max_iters) ==
    IF max_iters = 0 THEN 0
    ELSE LET next == run_rules(root, rules)
         IN IF next = root THEN 1 ELSE 1 + fixed_point_iterations(next, rules, max_iters - 1)

SinglePassPushDowns ==
    <<"DropRepartition", "PushDownPredicates", "PruneColumns", "FoldProjections",
      "PushDownClausesIntoScan">>

PushDownLimitsAndRepartitions == <<"PushDownLimit", "DropRepartition", "DropProjections">>

fixed_point_max_iters == 3

\* DynamicRunner.optimize.
optimize(p) ==
    run_fixed_point(run_rules(p, SinglePassPushDowns), PushDownLimitsAndRepartitions,
                    fixed_point_max_iters)

RuleNames ==
    {SinglePassPushDowns[i] : i \in 1..Len(SinglePassPushDowns)}
        \cup {PushDownLimitsAndRepartitions[i] : i \in 1..Len(PushDownLimitsAndRepartitions)}

\* Every node refers only to columns its children produce.
RECURSIVE WellFormed(_)
WellFormed(p) ==
    /\ p.op = "Scan" \/ required_columns(p) \subseteq
                            UNION {to_id_set(schema(p.children[i])) : i \in 1..Len(p.children)}
    /\ \A i \in 1..Len(p.children) : WellFormed(p.children[i])

\* The logical plans: scans of the tables a (columns 1, 2) and b (columns 5,
\* 6), and the nodes over a plan t.
ScanA(n) == Scan(<<Col(1), Col(2)>>, {1, 2}, n)
ScanB == Scan(<<Col(5), Col(6)>>, {5, 6}, 1)

Predicates ==
    {<<Pred(11, {1}, 1)>>, <<Pred(11, {1}, 1), Pred(13, {3}, 2)>>,
     <<Pred(11, {1}, 1), Pred(16, {1, 5}, 1)>>, <<Pred(15, {5}, 1)>>,
     <<Pred(16, {1, 5}, 1)>>, <<Pred(15, {5}, 1), Pred(16, {1, 5}, 1), Pred(11, {1}, 1)>>}

Projections ==
    {<<Col(1)>>, <<Col(1), Col(2)>>, <<Col(1), Computed(3, {2})>>, <<Col(1), Col(5)>>}

NodesOver(t) ==
    LET ids == to_id_set(schema(t))
    IN {Filter(t, ps) : ps \in {q \in Predicates : required_ids(q) \subseteq ids}}
       \cup {Projection(t, es) : es \in {q \in Projections : required_ids(q) \subseteq ids}}
       \cup (IF 1 \in ids
             THEN {Repartition(t, <<Col(1)>>, 2, "HASH"), Repartition(t, <<Col(1)>>, 1, "RANGE"),
                   LogicalSort(t, <<Col(1)>>)}
             ELSE {})
       \cup (IF {1, 2} \subseteq ids /\ ~(5 \in ids)
             THEN {LocalAggregate(t, <<Computed(7, {2}), Computed(8, {2})>>, <<Col(1)>>),
                   LogicalJoin(t, ScanB, <<Col(1)>>, <<Col(5)>>)}
             ELSE {})
       \cup {LogicalCoalesce(t, 1), LocalLimit(t, 1), LogicalGlobalLimit(t, 2)}

RECURSIVE LogicalPlans(_)
LogicalPlans(depth) ==
    IF depth = 0 THEN {ScanA(2)}
    ELSE LET below == LogicalPlans(depth - 1)
         IN below \cup UNION {NodesOver(t) : t \in below}

\* The rows of the tables: a row maps column IDs to values.  Partition i of
\* table a holds the rows (i, 0), (0, i) and (i, i); table b the rows (1, 1)
\* and (2, 0).
Row2(c1, v1, c2, v2) == [c \in {c1, c2} |-> IF c = c1 THEN v1 ELSE v2]

SourceRows(p) ==
    IF 1 \in to_id_set(p.schema)
    THEN [i \in 1..p.num_partitions |-> <<Row2(1, i, 2, 0), Row2(1, 0, 2, i), Row2(1, i, 2, i)>>]
    ELSE <<<<Row2(5, 1, 6, 1), Row2(5, 2, 6, 0)>>>>

\* The value of an expression on a row: of a column its value, of a computed
\* expression one more than the sum of the columns it requires.
eval(e, row) ==
    IF is_column(e) THEN row[e.id] ELSE 1 + SumOver([c \in e.req |-> row[c]], e.req)

\* A row passes a predicate if every conjunct holds of it.
passes(predicate, row) ==
    \A k \in 1..Len(predicate) : \A c \in predicate[k].req : row[c] >= predicate[k].min

\* Rows in the order of column c, rows of equal value in their order.
RECURSIVE InsertRow(_, _, _)
InsertRow(row, s, c) ==
    IF s = <<>> THEN <<row>>
    ELSE IF row[c] <= Head(s)[c] THEN <<row>> \o s
    ELSE <<Head(s)>> \o InsertRow(row, Tail(s), c)

RECURSIVE SortRowsBy(_, _)
SortRowsBy(s, c) == IF s = <<>> THEN <<>> ELSE InsertRow(Head(s), SortRowsBy(Tail(s), c), c)

\* s cut into n runs of equal length (the last ones shorter).
Chunks(s, n) ==
    LET size == (Len(s) + n - 1) \div n
    IN [i \in 1..n |-> SubSeq(s, Min(Len(s), (i - 1) * size) + 1, Min(Len(s), i * size))]

\* The first num rows of the partitions, counted over the partitions in order.
TakeGlobal(parts, num) ==
    [i \in 1..Len(parts) |->
        LET before == SumSeq([j \in 1..i - 1 |-> Len(parts[j])])
        IN SubSeq(parts[i], 1, Min(Len(parts[i]), Max(0, num - before)))]

\* The partitions a plan produces.
RECURSIVE Exec(_)
Exec(p) ==
    LET input == Exec(p.children[1])
        each(f(_)) == [i \in 1..Len(input) |-> f(input[i])]
    IN CASE p.op = "Scan" ->
              LET rows == SourceRows(p)
              IN [i \in 1..Len(rows) |->
                     [j \in 1..Len(rows[i]) |-> [c \in p.columns |-> rows[i][j][c]]]]
         [] p.op = "Filter" ->
              each(LAMBDA part : SelectSeq(part, LAMBDA row : passes(p.predicate, row)))
         [] p.op = "Projection" ->
              each(LAMBDA part :
                  [j \in 1..Len(part) |->
                      [c \in to_id_set(p.projection) |->
                          eval(CHOOSE e \in {p.projection[k] : k \in 1..Len(p.projection)} :
                                   e.id = c, part[j])]])
         [] p.op = "Repartition" ->
              IF p.scheme = "HASH"
              THEN [i \in 1..p.num_partitions |->
                       SelectSeq(Concat(input),
                                 LAMBDA row : stable_hash(<<row[p.partition_by[1].id]>>)
                                                 % p.num_partitions = i - 1)]
              ELSE Chunks(SortRowsBy(Concat(input), p.partition_by[1].id), p.num_partitions)
         [] p.op = "Coalesce" -> Chunks(Concat(input), p.num_partitions)
         [] p.op = "Sort" -> Chunks(SortRowsBy(Concat(input), p.sort_by[1].id), Len(input))
         [] p.op = "LocalLimit" -> each(LAMBDA part : SubSeq(part, 1, Min(Len(part), p.num)))
         [] p.op = "GlobalLimit" -> TakeGlobal(input, p.num)
         [] p.op = "Join" ->
              LET left == Concat(input)
                  right == Concat(Exec(p.children[2]))
              IN <<Concat([i \in 1..Len(left) |->
                      LET matches == SelectSeq(right, LAMBDA row :
                                         row[p.right_on[1].id] = left[i][p.left_on[1].id])
                      IN [j \in 1..Len(matches) |-> left[i] @@ matches[j]]])>>

\* All the rows a plan produces.
OutputRows(p) == Concat(Exec(p))

RECURSIVE HasOp(_, _)
HasOp(p, op) == p.op = op \/ \E i \in 1..Len(p.children) : HasOp(p.children[i], op)

InitOptimizer ==
    /\ plan \in LogicalPlans(MaxDepth)
    /\ out = plan
    /\ last = [kind |-> "start"]
    /\ NoRun

\* One pass of one rule over the plan.
RunSingleRule(rule) ==
    /\ last.kind = "start"
    /\ out' = run_single_rule(plan, rule)
    /\ last' = [kind |-> "rule", rule |-> rule]
    /\ UNCHANGED <<plan, gen, tasks, suspended, cache, run, ref>>
    /\ UNCHANGED schedvars

\* optimize, of the plan and then of what optimize returned.
Optimize ==
    /\ last.kind \in {"start", "optimize"}
    /\ run <= 2
    /\ out' = optimize(out)
    /\ last' = [kind |-> "optimize", before |-> out,
                iterations |-> fixed_point_iterations(run_rules(out, SinglePassPushDowns),
                                                      PushDownLimitsAndRepartitions,
                                                      fixed_point_max_iters)]
    /\ run' = run + 1
    /\ UNCHANGED <<plan, gen, tasks, suspended, cache, ref>>
    /\ UNCHANGED schedvars

NextOptimizer ==
    \/ \E rule \in RuleNames : RunSingleRule(rule)
    \/ Optimize

SpecOptimizer == InitOptimizer /\ [][NextOptimizer]_vars

(***************************************************************************)
(* Properties.                                                             *)
(***************************************************************************)
\* The rows the yielded task b keeps: the output of its instructions on its inputs.
RowsKept(b) ==
    Len(Execute(b.instructions, [i \in 1..Len(b.inputs) |-> Data(tasks, b.inputs[i])])[1])

TotalRows(ps) == SumSeq([i \in 1..Len(ps) |-> Len(ps[i])])

Returned == last.kind = "stop"

\* C2: when global_limit(child, n) has returned, the rows kept by the tasks it
\* yielded sum to min(n, rows of the child's partitions), and each task keeps
\* as many rows as its LocalLimit says.
C2_GlobalLimitSum ==
    (plan.kind = "global_limit" /\ Returned) =>
        /\ SumSeq([i \in 1..Len(out) |-> RowsKept(out[i])])
              = Min(plan.num, TotalRows(plan.partitions))
        /\ \A i \in 1..Len(out) : RowsKept(out[i]) = out[i].instructions[1].n

\* C2 witness: a returned global_limit whose limit was exhausted while a child
\* task was still queued (and got cancelled).
C2_Witness ==
    /\ plan.kind = "global_limit" /\ Returned
    /\ plan.num > 0 /\ TotalRows(plan.partitions) > plan.num
    /\ \E t \in 1..Len(tasks) : tasks[t].status = "cancelled"

\* C3: when global_limit has returned it has yielded exactly as many tasks as
\* the GlobalLimit node has partitions (the OpenTasks its child yields).
C3_GlobalLimitCount ==
    (plan.kind = "global_limit" /\ Returned) => Len(out) = Len(plan.partitions)

\* C3 witness: a returned global_limit(0) over several partitions of which only
\* the first was pulled from the child.
C3_Witness ==
    /\ plan.kind = "global_limit" /\ Returned
    /\ plan.num = 0 /\ Len(plan.partitions) > 1 /\ Len(tasks) = 1

\* C1: every task a generator has built (the builders the plan yielded and
\* the tasks the generators finalized themselves) takes as inputs only
\* pre-existing partitions and outputs of tasks that were Done when the
\* generator read their partition, and those tasks are Done.
InputsDone(inputs) ==
    \A i \in 1..Len(inputs) :
        /\ inputs[i].ready
        /\ inputs[i].src = "task" => tasks[inputs[i].id].status = "done"

C1_InputsDone ==
    /\ \A i \in 1..Len(out) : InputsDone(out[i].inputs)
    /\ \A t \in 1..Len(tasks) : InputsDone(tasks[t].inputs)

\* C1 witness: join has yielded a join task while a later child task is still
\* running.
C1_Witness ==
    /\ plan.kind = "join" /\ Len(out) >= 1
    /\ \E t \in 1..Len(tasks) : tasks[t].status = "pending"

\* A task that was cancelled, whether or not a worker completed it afterwards.
Cancelled(t) == tasks[t].status \in {"cancelled", "dropped"}

NoCancelledInput(inputs) ==
    \A i \in 1..Len(inputs) : inputs[i].src = "task" => ~Cancelled(inputs[i].id)

\* C8: the output of a cancelled task is not in the partition cache, and no
\* task a generator built reads the partition of a cancelled task, also once
\* a worker has completed the cancelled task.
C8_CancelSafe ==
    /\ \A t \in 1..Len(tasks) : Cancelled(t) => t \notin cache
    /\ \A i \in 1..Len(out) : NoCancelledInput(out[i].inputs)
    /\ \A t \in 1..Len(tasks) : NoCancelledInput(tasks[t].inputs)

\* C8 witness: global_limit has returned after yielding a LocalLimit(0) task
\* for a partition whose child task it cancelled, and a worker has completed
\* that cancelled task.
C8_Witness ==
    /\ plan.kind = "global_limit" /\ Returned /\ plan.num > 0
    /\ \E t \in 1..Len(tasks) : tasks[t].status = "dropped"
    /\ out[Len(out)].instructions = <<[op |-> "LocalLimit", n |-> 0]>>

\* The k-th yielded builders of both runs agree on instructions and inputs.
SameTask(a, b) ==
    /\ a.instructions = b.instructions
    /\ [i \in 1..Len(a.inputs) |-> <<a.inputs[i].src, a.inputs[i].id, a.inputs[i].idx>>]
         = [i \in 1..Len(b.inputs) |-> <<b.inputs[i].src, b.inputs[i].id, b.inputs[i].idx>>]

\* C10: in a second run of the same plan, the k-th task the plan yields has the
\* instructions and the inputs of the k-th task of the first run, and a
\* finished second run has yielded as many tasks as the first.
C10_Deterministic ==
    run = 2 =>
        /\ \A k \in 1..Min(Len(out), Len(ref)) : SameTask(out[k], ref[k])
        /\ Finished => Len(out) = Len(ref)

WithinCaps == cpu_used <= cap_cpu /\ gpu_used <= cap_gpu /\ mem_used <= cap_mem

\* Task t is in flight alone and its request exceeds the caps, not the hard caps.
AdmittedAlone(t) ==
    /\ in_flight = {t}
    /\ exceeds_caps(tasks[t].resource_request)
    /\ ~exceeds_hard_caps(tasks[t].resource_request)

Queued(t) == \E i \in 1..Len(queue) : queue[i] = t

\* C7: a task whose request exceeds the caps is in flight only alone, and
\* every queued task is eventually dispatched (or the query has failed).
C7_AdmittedAlone ==
    /\ [](\A t \in in_flight : exceeds_caps(tasks[t].resource_request) => in_flight = {t})
    /\ \A t \in 1..MaxTasks :
           Queued(t) ~> (failed \/ (t <= Len(tasks) /\ tasks[t].status # "pending"))

\* C7 witness: a task whose request exceeds the caps is in flight alone, after
\* another task has completed and while another one is queued.
C7_Witness ==
    /\ \E t \in 1..Len(tasks) : AdmittedAlone(t)
    /\ cache # {}
    /\ queue # <<>>

\* C9: once a task has failed, the query stays failed with the error of the
\* first failure, nothing is in flight, nothing more is dispatched or inserted
\* into the partition cache, no partition list is returned, and the run ends
\* by raising the error.
C9_FailFast ==
    /\ [](failed => /\ in_flight = {}
                     /\ \A t \in 1..Len(tasks) : tasks[t].status # "running"
                     /\ error # NoError
                     /\ result # "returned")
    /\ [][failed => /\ failed'
                     /\ error' = error
                     /\ cache' = cache
                     /\ queue' = queue
                     /\ in_flight' = {}]_vars
    /\ [][(~failed /\ failed' /\ error'.kind = "TaskFatal") =>
              /\ tasks[error'.task].status = "running"
              /\ tasks'[error'.task].status = "failed"]_vars
    /\ (failed ~> result = "raised")

\* C9 witness: the run has ended with the error of the task that failed
\* first; a task cancelled with it has failed afterwards.
C9_Witness ==
    /\ result = "raised"
    /\ error.kind = "TaskFatal"
    /\ tasks[error.task].status = "failed"
    /\ \E t \in 1..Len(tasks) : tasks[t].status = "failed_after_cancel"

\* A plan the generators accept: a coalesce does not coalesce upwards.
CoalescesDown(p) == p.kind = "coalesce" => p.to <= p.from

\* C11: the run of a plan ends with the plan's return value: the plan is not
\* left yielding None with no task in flight, which ends the run of the
\* single-threaded runner with an error.
C11_ObtainsResult ==
    (Finished /\ CoalescesDown(IF plan.kind = "materialize" THEN plan.inner ELSE plan))
        => Returned

\* C12: when materialize has returned, its result is the partitions of the
\* tasks it made of the builders its child yielded, one each and in that
\* order, and all of these tasks are Done; for a sort, a coalesce and a join
\* these are as many as the plan has output partitions.
C12_MaterializeResult ==
    (plan.kind = "materialize" /\ Returned) =>
        /\ gen.result = [i \in 1..Len(gen.opened) |-> partition(tasks, gen.opened[i])]
        /\ \A i \in 1..Len(gen.result) :
               gen.result[i].ready /\ tasks[gen.result[i].id].status = "done"
        /\ plan.inner.kind = "sort" => Len(gen.result) = plan.inner.num_partitions
        /\ plan.inner.kind = "coalesce" => Len(gen.result) = plan.inner.to
        /\ plan.inner.kind = "join" => Len(gen.result) = Len(plan.inner.partitions)

\* C12 witness: materialize over a sort into several partitions has returned;
\* the sort had finalized tasks of its own, which are not in the result.
C12_Witness ==
    /\ plan.kind = "materialize" /\ Returned
    /\ plan.inner.kind = "sort"
    /\ Len(tasks) > Len(gen.result)
    /\ Len(gen.result) > 1

IsSorted(s, descending) ==
    \A i \in 1..Len(s) - 1 : IF descending THEN s[i] >= s[i + 1] ELSE s[i] <= s[i + 1]

Count(s, x) == Cardinality({i \in 1..Len(s) : s[i] = x})

IsPermutation(s, t) ==
    /\ Len(s) = Len(t)
    /\ \A i \in 1..Len(s) : Count(s, s[i]) = Count(t, s[i])

\* The rows of the partitions materialize has returned.
ResultRows == [i \in 1..Len(gen.result) |-> Data(tasks, gen.result[i])]

\* C13: when a sort into n partitions has returned, it has n outputs, each
\* output is sorted, their concatenation in partition order is sorted, and it
\* is a permutation of the rows of the input partitions.
C13_Sorted ==
    (plan.kind = "materialize" /\ plan.inner.kind = "sort" /\ Returned) =>
        /\ Len(ResultRows) = plan.inner.num_partitions
        /\ \A i \in 1..Len(ResultRows) : IsSorted(ResultRows[i], gen.child.descending)
        /\ IsSorted(Concat(ResultRows), gen.child.descending)
        /\ IsPermutation(Concat(ResultRows), Concat(plan.inner.partitions))

\* C13 witness: the example [[3,1,4],[1,5,9],[2,6,5]] sorted ascending into
\* two outputs has returned [[1,1,2,3],[4,5,5,6,9]].
C13_Witness ==
    /\ plan.kind = "materialize" /\ plan.inner.kind = "sort" /\ Returned
    /\ plan.inner.partitions = SortExample
    /\ ~gen.child.descending
    /\ ResultRows = <<<<1, 1, 2, 3>>, <<4, 5, 5, 6, 9>>>>

\* ceil(a / b) of the integers a >= 0, b > 0.
CeilDiv(a, b) == (a + b - 1) \div b

\* The number (from 0, in the order the child yielded them) of the child
\* OpenTask whose partition the handle h stands for.
ChildIndex(h) == tasks[h.id].inputs[1].id - 1

\* C4: when coalesce from m to n (1 <= n <= m) has ended, for every i in
\* 0..n-1 the i-th ReduceMerge task has as inputs, in order, the partitions of
\* the child's OpenTasks ceil(m*i/n) .. ceil(m*(i+1)/n)-1.
C4_CoalesceInputs ==
    (plan.kind = "coalesce" /\ plan.to <= plan.from /\ Finished) =>
        \A i \in 0..plan.to - 1 :
            /\ i + 1 <= Len(out)
            /\ out[i + 1].instructions = <<[op |-> "ReduceMerge"]>>
            /\ [j \in 1..Len(out[i + 1].inputs) |-> ChildIndex(out[i + 1].inputs[j])]
                 = [j \in 1..CeilDiv(plan.from * (i + 1), plan.to) - CeilDiv(plan.from * i, plan.to)
                       |-> CeilDiv(plan.from * i, plan.to) + j - 1]

\* C5: when coalesce from m to n has ended: for n <= m it has yielded n merge
\* tasks, each with at least one input, and every partition of the child is an
\* input of exactly one of them; for n > m it was rejected before any item.
C5_CoalesceCount ==
    (plan.kind = "coalesce" /\ Finished) =>
        IF plan.to <= plan.from
        THEN /\ Len(out) = plan.to
             /\ \A i \in 1..Len(out) : Len(out[i].inputs) >= 1
             /\ \A k \in 0..plan.from - 1 :
                    Cardinality({<<i, j>> \in (1..Len(out)) \X (1..plan.from) :
                                    j <= Len(out[i].inputs) /\ ChildIndex(out[i].inputs[j]) = k}) = 1
        ELSE last.kind = "error" /\ out = <<>> /\ tasks = <<>>

\* C14: partition_by_hash into k >= 1 outputs returns exactly k outputs, every
\* input row is in exactly one output exactly once, and rows with equal key
\* values are in the same output, for every table size including 0; for
\* k <= 0 it ends with an error and returns no outputs.
C14_HashPartition ==
    (plan.kind = "partition_by_hash" /\ last.kind # "start") =>
        IF plan.num_partitions >= 1
        THEN /\ last.kind = "returned"
             /\ Len(out) = plan.num_partitions
             /\ \A r \in 1..Len(plan.table) :
                    SumSeq([i \in 1..Len(out) |-> Count(out[i], plan.table[r])]) = 1
             /\ SumSeq([i \in 1..Len(out) |-> Len(out[i])]) = Len(plan.table)
             /\ \A i, j \in 1..Len(out) : \A a \in 1..Len(out[i]), b \in 1..Len(out[j]) :
                    out[i][a].K = out[j][b].K => i = j
        ELSE last.kind = "error" /\ out = <<>>

\* C14 witness: a table with two rows of one key and a row of another has been
\* split into two or more outputs, two of them not empty.
C14_Witness ==
    /\ plan.kind = "partition_by_hash" /\ last.kind = "returned"
    /\ plan.num_partitions >= 2
    /\ \E a, b, c \in 1..Len(plan.table) :
          a # b /\ plan.table[a].K = plan.table[b].K /\ plan.table[c].K # plan.table[a].K
    /\ Cardinality({i \in 1..Len(out) : out[i] # <<>>}) >= 2

\* C14 witness of the rejection: 0 partitions were asked for.
C14_RejectWitness ==
    plan.kind = "partition_by_hash" /\ plan.num_partitions = 0 /\ last.kind = "error"

\* The events of the trace with phase ph that match e: on id and name if
\* async, on (pid, tid) otherwise.
Matching(ph, e, async) ==
    {i \in 1..Len(trace.events) :
        /\ trace.events[i].ph = ph
        /\ IF async
           THEN trace.events[i].id = e.id /\ trace.events[i].name = e.name
           ELSE trace.events[i].pid = e.pid /\ trace.events[i].tid = e.tid}

\* C15: in the trace of a run that has ended, every async begin event has a
\* matching async end event with the same id and name, and every duration
\* begin event has a matching end event on the same (pid, tid).
C15_TraceWellFormed ==
    (plan.kind = "traced" /\ result # "none") =>
        \A i \in 1..Len(trace.events) :
            LET e == trace.events[i]
            IN /\ e.ph = "b" =>
                    Cardinality(Matching("b", e, TRUE)) = Cardinality(Matching("e", e, TRUE))
               /\ e.ph = "B" =>
                    Cardinality(Matching("B", e, FALSE)) = Cardinality(Matching("E", e, FALSE))

\* A pass of rule over the plan has run.
Ran(rule) == last.kind = "rule" /\ last.rule = rule

\* C20: DropRepartition removes a Repartition over a non-Repartition child
\* exactly when its partition spec equals its child's and its scheme is not
\* RANGE; a RANGE Repartition is never removed.
C20_DropRepartition ==
    (Ran("DropRepartition") /\ plan.op = "Repartition" /\ plan.children[1].op # "Repartition") =>
        /\ out.op # "Repartition" <=>
              /\ partition_spec(plan) = partition_spec(plan.children[1])
              /\ plan.scheme # "RANGE"
        /\ plan.scheme = "RANGE" => out.op = "Repartition"

\* C16: optimize of what optimize returned returns it unchanged.
C16_Idempotent ==
    (last.kind = "optimize" /\ run = 3) => out = last.before

\* A conjunct of the filter p can be pushed below the child of p.
Pushable(p) ==
    LET child == p.children[1]
    IN \/ child.op \in {"Filter", "Sort", "Repartition", "Coalesce"}
       \/ /\ child.op = "Projection"
          /\ \E i \in 1..Len(p.predicate) :
                p.predicate[i].req \subseteq to_id_set(schema(child.children[1]))
       \/ /\ child.op = "Join"
          /\ \E i \in 1..Len(p.predicate), side \in 1..2 :
                p.predicate[i].req \subseteq to_id_set(schema(child.children[side]))

RECURSIVE NoPushableFilter(_)
NoPushableFilter(p) ==
    /\ p.op = "Filter" => ~Pushable(p)
    /\ \A i \in 1..Len(p.children) : NoPushableFilter(p.children[i])

\* C18: after one pass of PushDownPredicates no Filter is the parent of a
\* node it can be pushed below.
C18_PushedDown == Ran("PushDownPredicates") => NoPushableFilter(out)

\* C19: after PruneColumns the root produces the same column IDs, and every
\* node requires only column IDs its children produce.
C19_PruneColumns ==
    Ran("PruneColumns") =>
        /\ to_id_set(schema(out)) = to_id_set(schema(plan))
        /\ WellFormed(out)

\* C19 witness: columns were pruned below a node that requires columns the
\* projection above it does not.
C19_Witness ==
    /\ Ran("PruneColumns") /\ out # plan
    /\ plan.op = "Projection" /\ plan.children[1].op \in {"Filter", "Join", "Sort"}
    /\ ~(required_columns(plan.children[1]) \subseteq required_columns(plan))

\* C17: the plan a pass of a rule or optimize returns produces the same
\* multiset of rows as the plan it was given.
C17_SameRows ==
    ((last.kind = "rule" \/ (last.kind = "optimize" /\ run = 2))
            /\ ~HasOp(plan, "LocalAggregate")) =>
        IsPermutation(OutputRows(out), OutputRows(plan))

LimitOps == {"LocalLimit", "GlobalLimit"}
LimitUnaryOps == {"Repartition", "Coalesce", "Projection"}

\* No limit of p is the direct parent of a node a limit is pushed below.
RECURSIVE NoLimitOverUnary(_)
NoLimitOverUnary(p) ==
    /\ p.op \in LimitOps => p.children[1].op \notin LimitUnaryOps
    /\ \A i \in 1..Len(p.children) : NoLimitOverUnary(p.children[i])

\* The kinds of the nodes of p other than those a limit is pushed below.
RECURSIVE OpsBelow(_)
OpsBelow(p) ==
    (IF p.op \in LimitUnaryOps THEN {} ELSE {p.op})
        \cup UNION {OpsBelow(p.children[i]) : i \in 1..Len(p.children)}

\* The limits of p, root first: kind, n and the kinds of the nodes below.
RECURSIVE LimitsOf(_)
LimitsOf(p) ==
    (IF p.op \in LimitOps
     THEN <<[op |-> p.op, num |-> p.num, below |-> OpsBelow(p.children[1])]>>
     ELSE <<>>)
        \o Concat([i \in 1..Len(p.children) |-> LimitsOf(p.children[i])])

RECURSIVE NodeCount(_)
NodeCount(p) == 1 + SumSeq([i \in 1..Len(p.children) |-> NodeCount(p.children[i])])

\* The pairs of a limit and a node below it that a limit is pushed below.
RECURSIVE UnaryBelow(_)
UnaryBelow(p) ==
    (IF p.op \in LimitUnaryOps THEN 1 ELSE 0)
        + SumSeq([i \in 1..Len(p.children) |-> UnaryBelow(p.children[i])])

RECURSIVE LimitMeasure(_)
LimitMeasure(p) ==
    (IF p.op \in LimitOps THEN UnaryBelow(p) ELSE 0)
        + SumSeq([i \in 1..Len(p.children) |-> LimitMeasure(p.children[i])])

\* p is smaller than q: fewer nodes, or as many and limits further down.
Smaller(p, q) ==
    \/ NodeCount(p) < NodeCount(q)
    \/ NodeCount(p) = NodeCount(q) /\ LimitMeasure(p) < LimitMeasure(q)

\* The fixed-point batch run on p without the cap of 3: as often as the
\* measure of p allows.
Uncapped(p) ==
    run_fixed_point(p, PushDownLimitsAndRepartitions,
                    NodeCount(p) * (NodeCount(p) * NodeCount(p) + 1))

Conjuncts(predicate, I) ==
    LET RECURSIVE From(_)
        From(i) == IF i > Len(predicate) THEN <<>>
                   ELSE (IF i \in I THEN <<predicate[i]>> ELSE <<>>) \o From(i + 1)
    IN From(1)

\* C26: a pass of PushDownPredicates over Filter(P, Join(L, R)) puts the
\* conjuncts of P that need only columns of L in a Filter over L, of the
\* others those that need only columns of R in a Filter over R, and keeps the
\* rest in a Filter over the join; each conjunct is in one place, the join is
\* otherwise unchanged, and nothing changes at the join if no conjunct can be
\* pushed (the pass goes on in L and R).
C26_FilterThroughJoin ==
    (Ran("PushDownPredicates") /\ plan.op = "Filter" /\ plan.children[1].op = "Join") =>
        LET P == plan.predicate
            J == plan.children[1]
            L == J.children[1]
            R == J.children[2]
            toL == {i \in 1..Len(P) : P[i].req \subseteq to_id_set(schema(L))}
            toR == {i \in 1..Len(P) \ toL : P[i].req \subseteq to_id_set(schema(R))}
            rest == (1..Len(P)) \ (toL \cup toR)
            below(x, I) ==
                run_single_rule(IF I = {} THEN x ELSE Filter(x, Conjuncts(P, I)),
                                "PushDownPredicates")
            new_join == [J EXCEPT !.children = <<below(L, toL), below(R, toR)>>]
        IN out = IF toL \cup toR = {} THEN Filter(new_join, P)
                 ELSE IF rest = {} THEN new_join
                 ELSE Filter(new_join, Conjuncts(P, rest))

\* C26 witness: one conjunct went to each side and one stayed above the join.
C26_Witness ==
    /\ Ran("PushDownPredicates") /\ plan.op = "Filter" /\ plan.children[1].op = "Join"
    /\ Len(plan.predicate) = 3
    /\ out.op = "Filter" /\ Len(out.predicate) = 1
    /\ out.children[1].op = "Join"
    /\ \A i \in 1..2 : /\ out.children[1].children[i].op = "Filter"
                        /\ Len(out.children[1].children[i].predicate) = 1

\* C26 witness: no conjunct can be pushed and the plan is unchanged.
C26_NoChangeWitness ==
    /\ Ran("PushDownPredicates") /\ plan.op = "Filter" /\ plan.children[1].op = "Join"
    /\ out = plan

\* The builder number j of the plan under the chain of a fused plan: of a
\* partition_read the j-th partition, of a file_read the j-th file of the
\* listings (file index i of listing l, read once listing task l was done).
FusedBase(j) ==
    IF plan.base = "partition_read"
    THEN PartitionTaskBuilder(<<PreHandle(j, plan.partitions[j])>>, <<>>, NoRequest)
    ELSE LET before(l) == SumSeq([k \in 1..l - 1 |-> Len(plan.partitions[k])])
             l == CHOOSE k \in 1..Len(plan.partitions) :
                      before(k) < j /\ j <= before(k) + Len(plan.partitions[k])
             i == j - before(l) - 1
         IN PartitionTaskBuilder(
                <<[src |-> "task", id |-> l, idx |-> 1, data |-> <<>>, ready |-> TRUE]>>,
                <<[op |-> "ReadFile", partition_id |-> j - 1, index |-> i]>>,
                ResourceRequest(0, 0, plan.partitions[l][i + 1]))

RECURSIVE MaxSeq(_)
MaxSeq(s) == IF s = <<>> THEN 0 ELSE Max(Head(s), MaxSeq(Tail(s)))

\* The steps fused into b one after another.
RECURSIVE Fused(_, _)
Fused(b, steps) ==
    IF steps = <<>> THEN b
    ELSE Fused(add_instruction(b, Head(steps).instr, Head(steps).rr), Tail(steps))

\* C23: a builder with instruction list L and request r0 into which k
\* instructions with requests r1..rk were fused has the list L followed by the
\* k instructions in order, the maximum of the CPUs and of the GPUs and the sum
\* of the memory of r0..rk, and its inputs; fusing in any other order gives
\* the same request.
C23_Fusion ==
    plan.kind = "fused" =>
        \A j \in 1..Len(out) :
            LET b == out[j]
                base == FusedBase(j)
                k == Len(plan.steps)
                r == <<base.resource_request>> \o [i \in 1..k |-> plan.steps[i].rr]
            IN /\ b.inputs = base.inputs
               /\ b.instructions = base.instructions \o [i \in 1..k |-> plan.steps[i].instr]
               /\ b.resource_request =
                      ResourceRequest(MaxSeq([i \in 1..k + 1 |-> r[i].num_cpus]),
                                      MaxSeq([i \in 1..k + 1 |-> r[i].num_gpus]),
                                      SumSeq([i \in 1..k + 1 |-> r[i].memory_bytes]))
               /\ \A order \in Permutations(1..k) :
                      Fused(base, [i \in 1..k |-> plan.steps[order[i]]]).resource_request
                          = b.resource_request

\* C23 witness: two instructions with different requests were fused into the
\* builder that reads the second file of a listing.
C23_Witness ==
    /\ plan.kind = "fused" /\ plan.base = "file_read"
    /\ Len(plan.steps) = 2 /\ plan.steps[1].rr # plan.steps[2].rr
    /\ Len(out) >= 2
    /\ out[2].resource_request.memory_bytes >
           out[2].resource_request.num_cpus + FusedBase(2).resource_request.memory_bytes

\* global_limit has cancelled the tasks it still had queued: those finalized
\* after the task it applied the last limit to.
CancelCalled(t) ==
    /\ plan.kind = "global_limit" /\ gen.pc \in {"zeros", "done"} /\ gen.remaining_rows = 0
    /\ gen.done_task > 0 /\ t > gen.done_task

\* C24: cancel twice is cancel once; cancel leaves a Done task as it is, with
\* its output in the cache; cancel of a task that is not Done makes it
\* terminal: it never becomes Done and its output never enters the cache.
C24_CancelIdempotent ==
    /\ [](\A t \in 1..Len(tasks) :
            /\ cancel(cancel(tasks, t), t) = cancel(tasks, t)
            /\ done(tasks, t) => cancel(tasks, t) = tasks
            /\ tasks[t].status = "pending" => cancel(tasks, t)[t].status = "cancelled"
            /\ CancelCalled(t) => (done(tasks, t) /\ t \in cache) \/ Cancelled(t)
            /\ Cancelled(t) => ~done(tasks, t) /\ t \notin cache)
    /\ [][\A t \in 1..Len(tasks) :
            /\ (Cancelled(t) /\ t <= Len(tasks')) => ~done(tasks', t) /\ t \notin cache'
            /\ (done(tasks, t) /\ t <= Len(tasks')) => done(tasks', t) /\ t \in cache']_vars

\* C24 witness: global_limit cancelled a task that was running, and a worker
\* has completed it since.
C24_Witness ==
    /\ \E t \in 1..Len(tasks) : CancelCalled(t) /\ tasks[t].status = "dropped"
    /\ Finished

\* C24 witness: global_limit cancelled a task that was Done.
C24_DoneWitness ==
    \E t \in 1..Len(tasks) : CancelCalled(t) /\ done(tasks, t)

\* The output of every task among the inputs of u is in the partition cache.
InputsCached(u) ==
    \A i \in 1..Len(tasks[u].inputs) :
        tasks[u].inputs[i].src = "task" => tasks[u].inputs[i].id \in cache

IsLeftTask(t, k) ==
    IF plan.left = "file_read"
    THEN /\ tasks[t].instructions # <<>>
         /\ tasks[t].instructions[1] = [op |-> "ReadFile", partition_id |-> k - 1, index |-> 0]
    ELSE tasks[t].instructions = <<>> /\ tasks[t].inputs = <<PreHandle(k, Rows(1))>>

IsRightTask(t, k) ==
    tasks[t].instructions = <<>> /\ tasks[t].inputs = <<PreHandle(k, Rows(2))>>

\* C27: the k-th join task has as inputs the partition of the k-th task of
\* the left child and the partition of the k-th task of the right child, both
\* Done when join read them.
C27_JoinPairs ==
    plan.kind = "join_sides" =>
        \A k \in 1..Len(out) :
            /\ Len(out[k].inputs) = 2
            /\ \A i \in 1..2 : /\ out[k].inputs[i].src = "task"
                                /\ out[k].inputs[i].ready
                                /\ out[k].inputs[i].idx = 1
            /\ IsLeftTask(out[k].inputs[1].id, k)
            /\ IsRightTask(out[k].inputs[2].id, k)

\* C27 witness: a join task has been emitted, and the right task at the head
\* of the queue is Done while the left one is not.
C27_Witness ==
    /\ plan.kind = "join_sides" /\ Len(out) = 1
    /\ Len(gen.left_requests) = 1 /\ Len(gen.right_requests) = 1
    /\ ~done(tasks, gen.left_requests[1]) /\ done(tasks, gen.right_requests[1])

\* C28: join has as many left tasks queued as right ones, or one more; a
\* pull that emits no join task leaves the right child alone if the left
\* queue is not the longer one, and the left child otherwise.
C28_JoinBalance ==
    /\ [](plan.kind = "join_sides" =>
            \/ Len(gen.left_requests) = Len(gen.right_requests)
            \/ Len(gen.left_requests) = Len(gen.right_requests) + 1)
    /\ [][(plan.kind = "join_sides" /\ Len(out') = Len(out)) =>
            IF Len(gen.left_requests) <= Len(gen.right_requests)
            THEN /\ gen'.right_plan = gen.right_plan
                 /\ gen'.right_requests = gen.right_requests
                 /\ Len(tasks') > Len(tasks) /\ last'.kind = "task" /\ plan.left # "file_read"
                        => gen'.left_requests = Append(gen.left_requests, Len(tasks'))
            ELSE /\ gen'.left_plan = gen.left_plan
                 /\ gen'.left_requests = gen.left_requests
                 /\ Len(tasks') > Len(tasks)
                        => gen'.right_requests = Append(gen.right_requests, Len(tasks'))]_vars

\* C28 witness: with one task queued on each side, none of them Done, join
\* has pulled the second left task.
C28_Witness ==
    /\ plan.kind = "join_sides"
    /\ Len(gen.left_requests) = 2 /\ Len(gen.right_requests) = 1
    /\ last = TaskItem(gen.left_requests[2])
    /\ ~done(tasks, gen.left_requests[1]) /\ ~done(tasks, gen.right_requests[1])

\* C29: with N builders from each child, join has emitted N join tasks, has
\* pulled every builder of both children and has nothing queued when it
\* returns; and it does return.
C29_JoinReturns ==
    /\ []((plan.kind = "join_sides" /\ plan.n_left = plan.n_right /\ last.kind = "stop") =>
            /\ Len(out) = plan.n_left
            /\ gen.left_requests = <<>> /\ gen.right_requests = <<>>
            /\ \A k \in 1..plan.n_left :
                   /\ \E t \in 1..Len(tasks) : IsLeftTask(t, k)
                   /\ \E t \in 1..Len(tasks) : IsRightTask(t, k))
    /\ <>(plan.kind = "join_sides" /\ (plan.n_left = plan.n_right => last.kind = "stop"))

\* C29 witness: join has returned after MaxJoin join tasks, its left child
\* having yielded tasks of its own and None in between.
C29_Witness ==
    /\ plan.kind = "join_sides" /\ plan.left = "file_read"
    /\ plan.n_left = MaxJoin /\ plan.n_right = MaxJoin
    /\ last.kind = "stop" /\ Len(out) = MaxJoin

\* C30: a task global_limit finalizes from a builder of its child carries
\* LocalLimit(r), r the remaining row count of global_limit at that pull.
C30_LimitSent ==
    [][(plan.kind \in {"limited_read", "global_limit"} /\ Len(tasks') > Len(tasks)) =>
          LET instrs == tasks'[Len(tasks')].instructions
          IN (instrs # <<>> /\ instrs[Len(instrs)].op = "LocalLimit") =>
                 instrs[Len(instrs)].n = gen'.remaining_rows]_vars

\* global_limit(n > 0) has found its remaining row count at 0.
Exhausted == plan.kind = "global_limit" /\ plan.num > 0 /\ gen.remaining_rows = 0

\* The rows the first i yielded tasks were limited to, together.
Limited(i) == SumSeq([j \in 1..i |-> out[j].instructions[1].n])

\* The yielded task whose LocalLimit brought the remaining row count to 0.
Exhausting == CHOOSE e \in 1..Len(out) : Limited(e) = plan.num /\ Limited(e - 1) < plan.num

\* What global_limit does once its remaining row count is 0: nothing of its
\* queue is left running, every task yielded afterwards is LocalLimit(0) over
\* the partition the exhausting task read, nothing more is pulled from the
\* child; in the example the first task keeps 3 rows and the second is
\* LocalLimit(0) over the partition of the first child task.
AfterExhaustion ==
    /\ [](Exhausted =>
             /\ gen.materializations = <<>>
             /\ \A t \in 1..Len(tasks) : tasks[t].status # "pending"
             /\ \A i \in 1..Len(out) :
                    i > Exhausting =>
                        /\ out[i].instructions = <<[op |-> "LocalLimit", n |-> 0]>>
                        /\ Len(out[i].inputs) = 1
                        /\ out[i].inputs[1].src = "task"
                        /\ out[i].inputs[1].id = out[Exhausting].inputs[1].id)
    /\ [][(Exhausted /\ run' = run) => gen'.child = gen.child /\ Len(tasks') = Len(tasks)]_vars
    /\ []((plan = LimitExample /\ Returned) =>
             /\ Len(out) = 2
             /\ RowsKept(out[1]) = 3
             /\ out[1].inputs[1].id = 1
             /\ out[2].instructions = <<[op |-> "LocalLimit", n |-> 0]>>
             /\ out[2].inputs[1].id = 1)

\* A task over the second partition of the child has been computed.
SecondComputed ==
    \E t \in 1..Len(tasks) :
        /\ tasks[t].inputs = <<PreHandle(2, plan.partitions[2])>>
        /\ tasks[t].status = "done"

\* C31 as stated: global_limit after exhaustion, and in the example the second
\* partition of the child is not computed.
C31_SecondNotComputed ==
    /\ AfterExhaustion
    /\ [](plan = LimitExample => ~SecondComputed)

\* C31: global_limit after exhaustion (no pull from the child, the queue
\* cancelled, LocalLimit(0) over the partition of the exhausting task, the
\* example's two outputs); no task becomes Done after the exhaustion, and in
\* the example the second partition of the child is computed only by a task
\* that was pulled before the first output was yielded.
C31_AfterExhaustion ==
    /\ AfterExhaustion
    /\ [][(Exhausted /\ run' = run) => \A t \in 1..Len(tasks) : done(tasks', t) => done(tasks, t)]_vars
    /\ [][(plan = LimitExample /\ Len(out) >= 1 /\ run' = run) => Len(tasks') = Len(tasks)]_vars

\* C31 witness: the example has returned after cancelling the task of the
\* second partition, which was still running when the limit was exhausted.
C31_Witness ==
    /\ plan = LimitExample /\ Returned /\ Exhausted
    /\ Len(tasks) = 2 /\ Cancelled(2)

\* The i-th reduce task over m fanout tasks: the i-th output of each, in the
\* order the fanouts were yielded.
ReduceInputs(b, i, m) ==
    /\ Len(b.inputs) = m
    /\ \A k \in 1..m : b.inputs[k].src = "task" /\ b.inputs[k].id = k /\ b.inputs[k].idx = i

\* C32: reduce yields a reduce task only when every fanout task is Done; when
\* it ends it has returned after yielding num_partitions tasks, the i-th over
\* the i-th outputs of all fanout tasks in order and carrying the reduce
\* instruction, for every number of fanout sources.
C32_Reduce ==
    plan.kind = "reduce" =>
        /\ Len(out) >= 1 => \A t \in 1..Len(tasks) : done(tasks, t)
        /\ \A i \in 1..Len(out) :
               /\ ReduceInputs(out[i], i, Len(plan.partitions))
               /\ out[i].instructions = <<plan.frame.reduce_instruction>>
        /\ Finished =>
               /\ last.kind = "stop"
               /\ Len(tasks) = Len(plan.partitions)
               /\ Len(out) = plan.num_partitions

\* The inputs of task t are the first outputs of the tasks ids, in order, each
\* Done when the generator read it.
ReadsTasks(t, ids) ==
    /\ Len(tasks[t].inputs) = Len(ids)
    /\ \A k \in 1..Len(ids) :
           /\ tasks[t].inputs[k].src = "task"
           /\ tasks[t].inputs[k].id = ids[k]
           /\ tasks[t].inputs[k].idx = 1
           /\ tasks[t].inputs[k].ready

\* The stage of sort the t-th finalized task belongs to, for m sources.
SortStage(t, m) ==
    IF t <= m THEN "source"
    ELSE IF t <= 2 * m THEN "sample"
    ELSE IF t = 2 * m + 1 THEN "boundaries"
    ELSE "fanout"

FilesOf(ps) == Concat([j \in 1..Len(ps) |-> [i \in 1..Len(ps[j]) |-> <<j, i - 1>>]])

\* C34: the builders file_read has yielded are, in order, one ReadFile per file
\* of the listings in the order the listings were finalized, each over the
\* partition of its listing task, Done when read, with the file's index, the
\* file's size as memory request and the partition ids 0, 1, 2, ...; when
\* file_read returns every file has its builder.
C34_FileRead ==
    plan.kind = "file_read" =>
        LET files == FilesOf(plan.partitions)
        IN  /\ Len(out) <= Len(files)
            /\ \A k \in 1..Len(out) :
                   LET j == files[k][1]
                       i == files[k][2]
                   IN  /\ out[k].inputs = <<[partition(tasks, j) EXCEPT !.ready = TRUE]>>
                       /\ done(tasks, j)
                       /\ tasks[j].inputs = <<PreHandle(j, plan.partitions[j])>>
                       /\ out[k].instructions =
                              <<[op |-> "ReadFile", partition_id |-> k - 1, index |-> i]>>
                       /\ out[k].resource_request.memory_bytes = plan.partitions[j][i + 1]
            /\ Finished => last.kind = "stop" /\ Len(out) = Len(files)

\* C34 witness: file_read has returned after reading the files of two
\* listings, the first of more than one file.
C34_Witness ==
    /\ plan.kind = "file_read" /\ Returned
    /\ Len(plan.partitions) = 2 /\ Len(plan.partitions[1]) >= 2 /\ Len(plan.partitions[2]) >= 1
    /\ out[Len(out)].instructions[1].partition_id = Len(plan.partitions[1])

\* C35: the k-th builder file_write yields is the k-th builder of its child
\* with WriteFile(partition_id = k - 1) appended; an item of the child that
\* is no builder is yielded as it is, at its place, and leaves the index.
C35_FileWrite ==
    /\ [](plan.kind = "file_write" =>
             \A k \in 1..Len(out) :
                 /\ out[k].instructions[Len(out[k].instructions)]
                        = [op |-> "WriteFile", partition_id |-> k - 1]
                 /\ \A j \in 1..Len(out[k].instructions) - 1 :
                        out[k].instructions[j].op # "WriteFile")
    /\ [][(plan.kind = "file_write" /\ run' = run /\ <<gen', last', out'>> # <<gen, last, out>>) =>
             LET r == Pull(gen.child, tasks)
             IN  /\ gen'.child = r.g
                 /\ tasks' = r.T
                 /\ IF r.item.kind = "builder"
                    THEN /\ last'.kind = "builder"
                         /\ last'.inputs = r.item.inputs
                         /\ last'.instructions =
                                Append(r.item.instructions,
                                       [op |-> "WriteFile", partition_id |-> Len(out)])
                         /\ out' = Append(out, last')
                    ELSE last' = r.item /\ out' = out]_vars

\* C35 witness: file_write has yielded its second builder, after tasks of its
\* child that it passed on.
C35_Witness ==
    /\ plan.kind = "file_write" /\ Len(out) = 2 /\ Len(tasks) >= 2
    /\ last = out[2]
    /\ out[2].instructions[Len(out[2].instructions)] = [op |-> "WriteFile", partition_id |-> 1]

\* C36: the k-th builder fanout_random yields carries FanoutRandom(n, seed)
\* with seed = k - 1, whatever other items its child yields before it.
C36_FanoutSeed ==
    plan.kind = "fanout_random" =>
        \A k \in 1..Len(out) :
            out[k].instructions[Len(out[k].instructions)]
                = [op |-> "FanoutRandom", num_outputs |-> plan.frame.num_partitions,
                   seed |-> k - 1]

Range(q) == {q[i] : i \in 1..Len(q)}

\* The tasks the generator g and the generators below it have finalized and
\* still wait for: the tasks of their queues.
RECURSIVE Awaited(_)
Awaited(g) ==
    CASE g.type \in {"partition_read", "range_fanout_plan"} -> {}
      [] g.type \in {"file_read", "global_limit", "coalesce", "reduce", "materialize"} ->
            Range(g.materializations) \cup Awaited(g.child)
      [] g.type = "join" ->
            Range(g.left_requests) \cup Range(g.right_requests)
                \cup Awaited(g.left_plan) \cup Awaited(g.right_plan)
      [] g.type = "sort" ->
            Range(g.source_materializations) \cup Range(g.sample_materializations)
                \cup (IF g.boundaries = 0 THEN {} ELSE {g.boundaries})
                \cup (IF g.reduce = <<>> THEN {} ELSE Awaited(g.reduce))
                \cup Awaited(g.child)
      [] OTHER -> Awaited(g.child)

\* The coalesce below the generator g, if there is one.
RECURSIVE CoalesceOf(_)
CoalesceOf(g) ==
    IF g.type = "coalesce" THEN <<g>>
    ELSE IF "child" \in DOMAIN g THEN CoalesceOf(g.child) ELSE <<>>

\* The tasks coalesce g would merge next are queued and all Done.
CanMerge(g) ==
    /\ g.merges_per_result # <<>>
    /\ Len(g.materializations) >= Head(g.merges_per_result)
    /\ \A i \in 1..Head(g.merges_per_result) : done(tasks, g.materializations[i])

\* C37: while the plan is suspended on a None it yielded, a task one of its
\* generators has finalized and still waits for is not Done, and a coalesce
\* in it has not got the tasks of its next merge all Done.
C37_SuspendWaits ==
    suspended =>
        /\ \E t \in Awaited(gen) : ~done(tasks, t)
        /\ \A i \in 1..Len(CoalesceOf(gen)) : ~CanMerge(CoalesceOf(gen)[i])

\* C38: under the single-threaded runner no plan yields None: the run never
\* ends with the runner's assertion error.
C38_NoNoneConstruction ==
    last # ErrorItem("Got a None construction in singlethreaded mode")

====
